---------------------------- MODULE Spec2Model ----------------------------
(***************************************************************************)
(* TRACE: provenance manifests for video assets.                           *)
(*                                                                         *)
(* A model of src/src/index.ts (createManifest, saveSidecarFiles,          *)
(* verifyManifest, canonicalJSON, getSidecarPaths) and of the metadata     *)
(* embedding code (embedMetadataMP4/WebM, extractMetadataMP4/WebM and the  *)
(* MP4 box helpers) that is kept in src/README.md, lines 429-842.          *)
(*                                                                         *)
(* Buffers and strings are sequences of code units (naturals): a byte of   *)
(* a Buffer, an ASCII character of a string.  The platform functions the   *)
(* code calls (Buffer base64, JSON.parse/stringify, SHA-256, Ed25519, fs)  *)
(* are modelled by what they compute on these sequences.                   *)
(***************************************************************************)
EXTENDS Integers, Sequences, FiniteSets, TLC

VARIABLES
    fs,       \* the file system: path -> bytes of the file, or NoFile
    oracle,   \* the byte strings digested so far (SHA-256 / Ed25519 as an ideal digest)
    last,     \* the last operation performed and what it returned
    stamped,  \* per sidecar base: the asset bytes a stamp signed, while its sidecars are untouched
    steps     \* number of operations performed (bounded)

vars == <<fs, oracle, last, stamped, steps>>

------------------------------------------------------------------------------
(* Bounds of the model                                                      *)

MaxSteps == 2

------------------------------------------------------------------------------
(* Sequences of code units                                                  *)

Max(a, b) == IF a >= b THEN a ELSE b
Min(a, b) == IF a <= b THEN a ELSE b

SetMin(S) == CHOOSE x \in S : \A y \in S : x <= y
SetMax(S) == CHOOSE x \in S : \A y \in S : x >= y

\* Buffer.subarray(start, end) / String slice with 0-based offsets: the bytes
\* at offsets start .. end-1, both ends clamped to the buffer.
Subarray(buf, start, end) ==
    LET s == Min(Max(start, 0), Len(buf))
        e == Min(Max(end, 0), Len(buf))
    IN IF e <= s THEN <<>> ELSE SubSeq(buf, s + 1, e)

SubarrayFrom(buf, start) == Subarray(buf, start, Len(buf))

\* Whether pat occurs in buf at 0-based offset o
MatchesAt(buf, pat, o) ==
    /\ o >= 0
    /\ o + Len(pat) <= Len(buf)
    /\ \A i \in 1..Len(pat) : buf[o + i] = pat[i]

\* Buffer.indexOf(pat, from): first 0-based offset >= from, or -1
IndexOf(buf, pat, from) ==
    LET hits == {o \in Max(from, 0)..(Len(buf) - Len(pat)) : MatchesAt(buf, pat, o)}
    IN IF hits = {} THEN -1 ELSE SetMin(hits)

\* A search that returns the first offset instead of the last
FirstIndexOf(buf, pat) == IndexOf(buf, pat, 0)

\* Buffer.lastIndexOf(pat): last 0-based offset, or -1
LastIndexOf(buf, pat) ==
    LET hits == {o \in 0..(Len(buf) - Len(pat)) : MatchesAt(buf, pat, o)}
    IN IF hits = {} THEN -1 ELSE SetMax(hits)

RECURSIVE Concat(_)
\* Buffer.concat(list)
Concat(list) ==
    IF list = <<>> THEN <<>> ELSE Head(list) \o Concat(Tail(list))

\* Buffer.toString('utf-8'): ASCII bytes decode to themselves, a byte that is
\* not ASCII decodes to the replacement character U+FFFD.
Utf8ToString(bytes) ==
    [i \in 1..Len(bytes) |-> IF bytes[i] < 128 THEN bytes[i] ELSE 65533]

\* Buffer.from(str, 'utf-8'): ASCII characters encode to themselves, any
\* other character to a multi-byte sequence, kept here as the bytes of U+FFFD.
RECURSIVE Utf8Range(_, _, _)
Utf8Range(str, lo, hi) ==
    IF lo > hi THEN <<>>
    ELSE IF lo = hi
         THEN (IF str[lo] < 128 THEN <<str[lo]>> ELSE <<239, 191, 189>>)
         ELSE LET mid == (lo + hi) \div 2
              IN Utf8Range(str, lo, mid) \o Utf8Range(str, mid + 1, hi)

Utf8FromString(str) ==
    IF \A i \in 1..Len(str) : str[i] < 128 THEN str ELSE Utf8Range(str, 1, Len(str))

------------------------------------------------------------------------------
(* Base64 (Buffer.toString('base64'), Buffer.from(s, 'base64'))             *)

B64Alphabet ==
    << 65, 66, 67, 68, 69, 70, 71, 72, 73, 74, 75, 76, 77, 78, 79, 80,
       81, 82, 83, 84, 85, 86, 87, 88, 89, 90,
       97, 98, 99, 100, 101, 102, 103, 104, 105, 106, 107, 108, 109, 110,
       111, 112, 113, 114, 115, 116, 117, 118, 119, 120, 121, 122,
       48, 49, 50, 51, 52, 53, 54, 55, 56, 57, 43, 47 >>

B64Pad == <<61>>   \* "="

\* The 6-bit value of a base64 character (also of the url-safe "-" and "_"),
\* or -1 for a character outside the alphabet
B64Value(c) ==
    IF c >= 65 /\ c <= 90 THEN c - 65
    ELSE IF c >= 97 /\ c <= 122 THEN c - 71
    ELSE IF c >= 48 /\ c <= 57 THEN c + 4
    ELSE IF c = 43 \/ c = 45 THEN 62
    ELSE IF c = 47 \/ c = 95 THEN 63
    ELSE -1

\* buf.toString('base64')
Base64Encode(bytes) ==
    LET n == Len(bytes)
        B(i) == IF i <= n THEN bytes[i] ELSE 0
        Ch(j) ==
            LET g == (j - 1) \div 4
                k == (j - 1) % 4
                b0 == B(3 * g + 1)
                b1 == B(3 * g + 2)
                b2 == B(3 * g + 3)
            IN CASE k = 0 -> B64Alphabet[(b0 \div 4) + 1]
                 [] k = 1 -> B64Alphabet[((b0 % 4) * 16 + (b1 \div 16)) + 1]
                 [] k = 2 -> IF 3 * g + 2 > n THEN B64Pad[1]
                             ELSE B64Alphabet[((b1 % 16) * 4 + (b2 \div 64)) + 1]
                 [] OTHER -> IF 3 * g + 3 > n THEN B64Pad[1]
                             ELSE B64Alphabet[(b2 % 64) + 1]
    IN [j \in 1..(4 * ((n + 2) \div 3)) |-> Ch(j)]

IsB64Char(c) == B64Value(c) >= 0

\* Buffer.from(text, 'base64'): Node's decoder skips characters outside the
\* alphabet, stops at the first "=", and decodes the 6-bit groups it has read;
\* a trailing group of 2 or 3 characters gives 1 or 2 bytes.
Base64Decode(text) ==
    LET stop == IndexOf(text, B64Pad, 0)
        body == IF stop = -1 THEN text ELSE Subarray(text, 0, stop)
        cs == SelectSeq(body, IsB64Char)
        m == Len(cs)
        V(i) == IF i <= m THEN B64Value(cs[i]) ELSE 0
        outLen == 3 * (m \div 4) + (CASE m % 4 = 2 -> 1 [] m % 4 = 3 -> 2 [] OTHER -> 0)
        By(i) ==
            LET g == (i - 1) \div 3
                k == (i - 1) % 3
                v0 == V(4 * g + 1)
                v1 == V(4 * g + 2)
                v2 == V(4 * g + 3)
                v3 == V(4 * g + 4)
            IN CASE k = 0 -> v0 * 4 + (v1 \div 16)
                 [] k = 1 -> (v1 % 16) * 16 + (v2 \div 4)
                 [] OTHER -> (v2 % 4) * 64 + v3
    IN [i \in 1..outLen |-> By(i)]

------------------------------------------------------------------------------
(* JavaScript values and JSON                                               *)
(*                                                                          *)
(* A value is a record [t, s, m]: t its type, s the characters of a string  *)
(* or the digits of a number, m the members of an object (key k, value v)   *)
(* in insertion order, or the elements of an array (k empty).               *)

JNull == [t |-> "null", s |-> <<>>, m |-> <<>>]
JUndefined == [t |-> "undefined", s |-> <<>>, m |-> <<>>]
JStr(str) == [t |-> "string", s |-> str, m |-> <<>>]
JNum(digits) == [t |-> "number", s |-> digits, m |-> <<>>]
JArr(items) == [t |-> "array", s |-> <<>>, m |-> [i \in 1..Len(items) |-> [k |-> <<>>, v |-> items[i]]]]
JObj(members) == [t |-> "object", s |-> <<>>, m |-> members]

Member(key, val) == [k |-> key, v |-> val]

\* Lexicographic order of strings by code unit (String.prototype.localeCompare
\* is not used anywhere: Array.prototype.sort without a comparator)
LexLess(a, b) ==
    \/ Len(a) < Len(b) /\ \A i \in 1..Len(a) : a[i] = b[i]
    \/ \E i \in 1..Min(Len(a), Len(b)) :
          /\ a[i] < b[i]
          /\ \A j \in 1..(i - 1) : a[j] = b[j]

\* An array index: the canonical decimal form of an integer in 0 .. 2^32 - 2.
\* JavaScript objects list such keys first, in ascending numeric order.
IsArrayIndex(key) ==
    /\ Len(key) >= 1 /\ Len(key) <= 10
    /\ \A i \in 1..Len(key) : key[i] >= 48 /\ key[i] <= 57
    /\ (Len(key) > 1 => key[1] # 48)
    /\ (Len(key) = 10 => LexLess(key, <<52, 50, 57, 52, 57, 54, 55, 50, 57, 53>>))

IndexLess(a, b) == Len(a) < Len(b) \/ (Len(a) = Len(b) /\ LexLess(a, b))

\* obj[key] = val on an ordinary object: a key already present keeps its
\* place and takes the new value; a new array-index key goes among the index
\* keys in numeric order, any other new key goes last.
SetProp(members, key, val) ==
    IF \E i \in 1..Len(members) : members[i].k = key
    THEN [i \in 1..Len(members) |->
            IF members[i].k = key THEN Member(key, val) ELSE members[i]]
    ELSE IF IsArrayIndex(key)
         THEN LET before == SelectSeq(members, LAMBDA e : IsArrayIndex(e.k) /\ IndexLess(e.k, key))
                  after == SelectSeq(members, LAMBDA e : ~(IsArrayIndex(e.k) /\ IndexLess(e.k, key)))
              IN before \o <<Member(key, val)>> \o after
         ELSE Append(members, Member(key, val))

\* o.key: undefined when o has no such property.  (Reading a property of null
\* or undefined throws; the callers test IsNullish first.)
Prop(o, key) ==
    IF o.t = "object" /\ \E i \in 1..Len(o.m) : o.m[i].k = key
    THEN o.m[CHOOSE i \in 1..Len(o.m) : o.m[i].k = key].v
    ELSE JUndefined

IsNullish(o) == o.t \in {"null", "undefined"}

QUOTE == <<34>>
BACKSLASH == <<92>>
STR_null == <<110, 117, 108, 108>>
STR_undefined == <<117, 110, 100, 101, 102, 105, 110, 101, 100>>

RECURSIVE QuoteRange(_, _, _)
\* The characters lo..hi of str as they stand inside a JSON string literal
QuoteRange(str, lo, hi) ==
    IF lo > hi THEN <<>>
    ELSE IF lo = hi
         THEN (IF str[lo] = 34 \/ str[lo] = 92 THEN <<92, str[lo]>> ELSE <<str[lo]>>)
         ELSE LET mid == (lo + hi) \div 2
              IN QuoteRange(str, lo, mid) \o QuoteRange(str, mid + 1, hi)

\* JSON.stringify of a string
QuoteString(str) ==
    IF \A i \in 1..Len(str) : str[i] # 34 /\ str[i] # 92
    THEN QUOTE \o str \o QUOTE
    ELSE QUOTE \o QuoteRange(str, 1, Len(str)) \o QUOTE

RECURSIVE JSONstringify(_)
RECURSIVE StringifyMembers(_, _, _)
\* The members i.. of an object or array, comma separated
StringifyMembers(m, i, isObj) ==
    IF i > Len(m) THEN <<>>
    ELSE (IF i > 1 THEN <<44>> ELSE <<>>)
         \o (IF isObj THEN QuoteString(m[i].k) \o <<58>> ELSE <<>>)
         \o JSONstringify(m[i].v)
         \o StringifyMembers(m, i + 1, isObj)

\* JSON.stringify(value) for a value without undefined members
JSONstringify(v) ==
    CASE v.t = "null" -> STR_null
      [] v.t = "string" -> QuoteString(v.s)
      [] v.t = "number" -> v.s
      [] v.t = "array" -> <<91>> \o StringifyMembers(v.m, 1, FALSE) \o <<93>>
      [] v.t = "object" -> <<123>> \o StringifyMembers(v.m, 1, TRUE) \o <<125>>
      [] OTHER -> STR_undefined

RECURSIVE StringOf(_)
\* String(value), the coercion JSON.parse applies to its argument: an array
\* gives its elements' strings joined by commas (null and undefined elements
\* give nothing), any other object gives "[object Object]"
StringOf(v) ==
    CASE v.t = "string" -> v.s
      [] v.t = "number" -> v.s
      [] v.t = "null" -> STR_null
      [] v.t = "undefined" -> STR_undefined
      [] v.t = "array" ->
            Concat([i \in 1..Len(v.m) |->
                (IF i > 1 THEN <<44>> ELSE <<>>)
                \o (IF IsNullish(v.m[i].v) THEN <<>> ELSE StringOf(v.m[i].v))])
      [] OTHER -> <<91, 111, 98, 106, 101, 99, 116, 32, 79, 98, 106, 101, 99, 116, 93>>

RECURSIVE RunBefore(_, _)
\* Number of consecutive backslashes that end just before position p
RunBefore(text, p) ==
    IF p <= 1 \/ text[p - 1] # 92 THEN 0 ELSE 1 + RunBefore(text, p - 1)

RECURSIVE ScanRange(_, _, _, _)
\* Scans the characters lo..hi of a string literal, esc telling whether the
\* character before lo was an escaping backslash: q is the position of the
\* closing quote (0 if there is none in the range), bad tells that the
\* literal is malformed (a raw control character, an escape other than
\* \" \\ \/), esc is the state after hi.  The range is halved at each call.
ScanRange(text, lo, hi, esc) ==
    IF lo > hi THEN [q |-> 0, bad |-> FALSE, esc |-> esc]
    ELSE IF lo = hi
         THEN (IF esc
               THEN [q |-> 0, bad |-> text[lo] \notin {34, 92, 47}, esc |-> FALSE]
               ELSE [q |-> IF text[lo] = 34 THEN lo ELSE 0,
                     bad |-> text[lo] < 32,
                     esc |-> text[lo] = 92])
         ELSE LET mid == (lo + hi) \div 2
                  left == ScanRange(text, lo, mid, esc)
              IN IF left.q # 0 \/ left.bad THEN left
                 ELSE ScanRange(text, mid + 1, hi, left.esc)

\* Position of the quote that closes the string literal whose characters
\* begin at position j; 0 when the literal is not closed or is malformed.
ScanString(text, j) ==
    LET r == ScanRange(text, j, Len(text), FALSE)
    IN IF r.bad THEN 0 ELSE r.q

\* The string a literal's characters stand for: every escaping backslash
\* is dropped (the escapes handled are \" \\ and \/).
Unescape(body) ==
    IF \A i \in 1..Len(body) : body[i] # 92 THEN body
    ELSE LET idx == [i \in 1..Len(body) |-> i]
             keep == SelectSeq(idx, LAMBDA p : ~(body[p] = 92 /\ RunBefore(body, p) % 2 = 0))
         IN [i \in 1..Len(keep) |-> body[keep[i]]]

RECURSIVE ScanDigits(_, _)
\* First position at or after j that holds no digit
ScanDigits(text, j) ==
    IF j <= Len(text) /\ text[j] >= 48 /\ text[j] <= 57
    THEN ScanDigits(text, j + 1) ELSE j

ParseFail == [ok |-> FALSE, v |-> JNull, nx |-> 0]
ParseOk(val, next) == [ok |-> TRUE, v |-> val, nx |-> next]

RECURSIVE ParseValue(_, _)
RECURSIVE ParseMembers(_, _, _)
RECURSIVE ParseElements(_, _, _)

\* The members of an object from position i (at a key) to the closing brace
ParseMembers(text, i, acc) ==
    IF i > Len(text) \/ text[i] # 34 THEN ParseFail
    ELSE LET q == ScanString(text, i + 1)
         IN IF q = 0 \/ q + 1 > Len(text) \/ text[q + 1] # 58 THEN ParseFail
            ELSE LET key == Unescape(SubSeq(text, i + 1, q - 1))
                     r == ParseValue(text, q + 2)
                 IN IF ~r.ok \/ r.nx > Len(text) THEN ParseFail
                    ELSE IF text[r.nx] = 125
                         THEN ParseOk(JObj(SetProp(acc, key, r.v)), r.nx + 1)
                    ELSE IF text[r.nx] = 44
                         THEN ParseMembers(text, r.nx + 1, SetProp(acc, key, r.v))
                    ELSE ParseFail

\* The elements of an array from position i to the closing bracket
ParseElements(text, i, acc) ==
    LET r == ParseValue(text, i)
    IN IF ~r.ok \/ r.nx > Len(text) THEN ParseFail
       ELSE IF text[r.nx] = 93 THEN ParseOk(JArr(Append(acc, r.v)), r.nx + 1)
       ELSE IF text[r.nx] = 44 THEN ParseElements(text, r.nx + 1, Append(acc, r.v))
       ELSE ParseFail

\* One JSON value starting at position i: [ok, v, nx] with nx the position
\* after the value.  (Texts carry no white space, numbers are digit strings.)
ParseValue(text, i) ==
    IF i > Len(text) THEN ParseFail
    ELSE CASE text[i] = 34 ->
                LET q == ScanString(text, i + 1)
                IN IF q = 0 THEN ParseFail
                   ELSE ParseOk(JStr(Unescape(SubSeq(text, i + 1, q - 1))), q + 1)
           [] text[i] = 123 ->
                IF i + 1 <= Len(text) /\ text[i + 1] = 125
                THEN ParseOk(JObj(<<>>), i + 2)
                ELSE ParseMembers(text, i + 1, <<>>)
           [] text[i] = 91 ->
                IF i + 1 <= Len(text) /\ text[i + 1] = 93
                THEN ParseOk(JArr(<<>>), i + 2)
                ELSE ParseElements(text, i + 1, <<>>)
           [] text[i] = 110 ->
                IF MatchesAt(text, STR_null, i - 1) THEN ParseOk(JNull, i + 4) ELSE ParseFail
           [] text[i] >= 48 /\ text[i] <= 57 ->
                LET e == ScanDigits(text, i)
                IN ParseOk(JNum(SubSeq(text, i, e - 1)), e)
           [] OTHER -> ParseFail

\* JSON.parse(text): [ok, v]; ok = FALSE stands for the SyntaxError it throws
JSONparse(text) ==
    LET r == ParseValue(text, 1)
    IN IF r.ok /\ r.nx = Len(text) + 1 THEN [ok |-> TRUE, v |-> r.v]
       ELSE [ok |-> FALSE, v |-> JNull]

------------------------------------------------------------------------------
(* MP4 boxes (src/README.md, "TRACE Metadata Embedding")                    *)

TRACE_UUID == <<84, 82, 65, 67, 69, 45, 80, 114, 111, 118, 45, 50, 48, 50, 52, 45>>
TRACE_WEBM_MARKER == <<60, 33, 45, 45, 84, 82, 65, 67, 69, 80, 82, 79, 86, 58>>   \* "<!--TRACEPROV:"
WEBM_MARKER_END == <<45, 45, 62>>   \* "-->"
STR_moov == <<109, 111, 111, 118>>
STR_meta == <<109, 101, 116, 97>>
STR_uuid == <<117, 117, 105, 100>>
STR_manifest == <<109, 97, 110, 105, 102, 101, 115, 116>>
STR_signature == <<115, 105, 103, 110, 97, 116, 117, 114, 101>>

\* Any size of 2^30 or more: no buffer of the model is that long, so every
\* such size runs past the end of its buffer.
HugeSize == 2^30

\* Whether a read of n bytes at offset lies inside the buffer (Node throws a
\* RangeError otherwise)
CanRead(buffer, offset, n) == offset >= 0 /\ offset + n <= Len(buffer)

\* buffer.readUInt32BE(offset), for a read inside the buffer
readUInt32BE(buffer, offset) ==
    IF buffer[offset + 1] >= 64 THEN HugeSize
    ELSE buffer[offset + 1] * 16777216 + buffer[offset + 2] * 65536
         + buffer[offset + 3] * 256 + buffer[offset + 4]

\* Number(buffer.readBigUInt64BE(offset)), for a read inside the buffer
readUInt64BE(buffer, offset) ==
    IF \E i \in 1..4 : buffer[offset + i] # 0 THEN HugeSize
    ELSE readUInt32BE(buffer, offset + 4)

\* buffer.writeUInt32BE(n): the four bytes of n
UInt32BE(n) ==
    <<(n \div 16777216) % 256, (n \div 65536) % 256, (n \div 256) % 256, n % 256>>

NoBox == [found |-> FALSE, size |-> 0, data |-> <<>>, startOffset |-> 0]

RECURSIVE findAndParseBoxFrom(_, _, _)
\* The while loop of findAndParseBox, from the given offset
findAndParseBoxFrom(buffer, boxType, offsetStart) ==
    IF ~(offsetStart < Len(buffer) - 8) THEN NoBox
    ELSE LET size32 == readUInt32BE(buffer, offsetStart)
             extended == size32 = 1
         IN IF extended /\ offsetStart + 16 > Len(buffer) THEN NoBox
            ELSE LET size == IF extended THEN readUInt64BE(buffer, offsetStart + 8) ELSE size32
                     offset == IF extended THEN offsetStart + 16 ELSE offsetStart + 4
                 IN IF offset + 4 > Len(buffer) THEN NoBox
                    ELSE IF Subarray(buffer, offset, offset + 4) = boxType
                         THEN LET dataStart == offset + 4
                                  dataEnd == offsetStart + size
                                  dataOffset == IF boxType = STR_meta THEN 4 ELSE 0
                              IN [found |-> TRUE,
                                  size |-> size,
                                  data |-> Subarray(buffer, dataStart + dataOffset, dataEnd),
                                  startOffset |-> offsetStart]
                         ELSE IF size = 0 THEN NoBox
                              ELSE findAndParseBoxFrom(buffer, boxType, offsetStart + size)

\* findAndParseBox(buffer, boxType): the first box of that type met by the
\* scan, or NoBox (null)
findAndParseBox(buffer, boxType) == findAndParseBoxFrom(buffer, boxType, 0)

RECURSIVE extractUUIDBoxesFrom(_, _, _)
\* The while loop of extractUUIDBoxes, from the given offset with the boxes
\* collected so far: [err, boxes], err when a read past the end throws
extractUUIDBoxesFrom(metaData, offset0, boxes) ==
    IF ~(offset0 < Len(metaData) - 8) THEN [err |-> FALSE, boxes |-> boxes]
    ELSE LET size32 == readUInt32BE(metaData, offset0)
         IN IF size32 = 0 \/ size32 > Len(metaData) - offset0
            THEN [err |-> FALSE, boxes |-> boxes]
            ELSE IF size32 = 1 /\ ~CanRead(metaData, offset0 + 8, 8)
            THEN [err |-> TRUE, boxes |-> boxes]
            ELSE LET size == IF size32 = 1 THEN readUInt64BE(metaData, offset0 + 8) ELSE size32
                     offset == IF size32 = 1 THEN offset0 + 16 ELSE offset0 + 4
                     back == IF size = 1 THEN 16 ELSE 4
                 IN IF offset + 4 > Len(metaData) THEN [err |-> FALSE, boxes |-> boxes]
                    ELSE IF Subarray(metaData, offset, offset + 4) = STR_uuid
                         THEN IF offset + 24 > Len(metaData)
                              THEN [err |-> FALSE, boxes |-> boxes]
                              ELSE LET uuid == Subarray(metaData, offset + 8, offset + 24)
                                       dataStart == offset + 24
                                       dataEnd == offset - back + size
                                       data == Subarray(metaData, dataStart, dataEnd)
                                       next == offset - back + size
                                       found == Append(boxes, [uuid |-> uuid, data |-> data])
                                   IN IF size = 0 THEN [err |-> FALSE, boxes |-> found]
                                      ELSE extractUUIDBoxesFrom(metaData, next, found)
                         ELSE IF size = 0 THEN [err |-> FALSE, boxes |-> boxes]
                              ELSE extractUUIDBoxesFrom(metaData, offset - back + size, boxes)

\* extractUUIDBoxes(metaData)
extractUUIDBoxes(metaData) == extractUUIDBoxesFrom(metaData, 0, <<>>)

\* createUUIDBox(uuid, data): size(4) "uuid"(4) uuid(16) data
createUUIDBox(uuid, data) ==
    UInt32BE(4 + 4 + 16 + Len(data)) \o STR_uuid \o uuid \o data

\* createMetaBox(uuidBoxes): size(4) "meta"(4) version/flags(4) uuid boxes
createMetaBox(uuidBoxes) ==
    LET metaData == Concat([i \in 1..Len(uuidBoxes) |->
                               createUUIDBox(uuidBoxes[i].uuid, uuidBoxes[i].data)])
    IN UInt32BE(4 + 4 + 4 + Len(metaData)) \o STR_meta \o UInt32BE(0) \o metaData

\* createBox(type, data)
createBox(type, data) == UInt32BE(4 + 4 + Len(data)) \o type \o data

\* removeBoxFromBuffer(buffer, boxType)
removeBoxFromBuffer(buffer, boxType) ==
    LET box == findAndParseBox(buffer, boxType)
    IN IF ~box.found THEN buffer
       ELSE Subarray(buffer, 0, box.startOffset)
            \o SubarrayFrom(buffer, box.startOffset + box.size)

\* insertBox(buffer, box): at the end
insertBox(buffer, box) == buffer \o box

\* replaceBoxInFile(fileBuffer, boxType, newBox)
replaceBoxInFile(fileBuffer, boxType, newBox) ==
    LET box == findAndParseBox(fileBuffer, boxType)
    IN IF ~box.found THEN fileBuffer
       ELSE Subarray(fileBuffer, 0, box.startOffset) \o newBox
            \o SubarrayFrom(fileBuffer, box.startOffset + box.size)

\* JSON.stringify({ manifest, signature }) as UTF-8 bytes
MetadataEnvelope(manifest, signature) ==
    Utf8FromString(JSONstringify(JObj(<<Member(STR_manifest, JStr(manifest)),
                                         Member(STR_signature, JStr(signature))>>)))

\* box.uuid.equals(TRACE_UUID)
IsTraceBox(box) == box.uuid = TRACE_UUID

\* embedMetadataMP4 on the bytes of the file: [err, file].  err stands for
\* the exception thrown before anything is written; file is what
\* writeFileSync leaves in the file.
embedMetadataMP4(fileBuffer, manifest, signature) ==
    LET moovBox == findAndParseBox(fileBuffer, STR_moov)
    IN IF ~moovBox.found THEN [err |-> TRUE, file |-> fileBuffer]
       ELSE LET existingMetaBox == findAndParseBox(moovBox.data, STR_meta)
                metadataBuffer == MetadataEnvelope(manifest, signature)
                trace == [uuid |-> TRACE_UUID, data |-> metadataBuffer]
                uuidBoxes == IF existingMetaBox.found
                             THEN extractUUIDBoxes(existingMetaBox.data)
                             ELSE [err |-> FALSE, boxes |-> <<>>]
                otherUUIDBoxes == SelectSeq(uuidBoxes.boxes, LAMBDA box : ~IsTraceBox(box))
                newMetaBox == IF ~existingMetaBox.found
                              THEN createMetaBox(<<trace>>)
                              ELSE createMetaBox(Append(otherUUIDBoxes, trace))
                moovWithoutMeta == removeBoxFromBuffer(moovBox.data, STR_meta)
                newMoovData == insertBox(moovWithoutMeta, newMetaBox)
                newMoovBox == createBox(STR_moov, newMoovData)
            IN IF uuidBoxes.err THEN [err |-> TRUE, file |-> fileBuffer]
               ELSE [err |-> FALSE, file |-> replaceBoxInFile(fileBuffer, STR_moov, newMoovBox)]

\* What an extract returns: null (found = FALSE), or the pair of values read
\* from the envelope; err stands for an exception thrown by the extract.
NoMetadata == [err |-> FALSE, found |-> FALSE, manifest |-> JUndefined, signature |-> JUndefined]
ExtractThrows == [err |-> TRUE, found |-> FALSE, manifest |-> JUndefined, signature |-> JUndefined]

\* The try block shared by both extracts: JSON.parse of the envelope text and
\* the read of its two properties; any exception gives null.
ParseEnvelope(text) ==
    LET parsed == JSONparse(text)
    IN IF ~parsed.ok \/ IsNullish(parsed.v) THEN NoMetadata
       ELSE [err |-> FALSE, found |-> TRUE,
             manifest |-> Prop(parsed.v, STR_manifest),
             signature |-> Prop(parsed.v, STR_signature)]

\* extractMetadataMP4 on the bytes of an existing file
extractMetadataMP4(fileBuffer) ==
    LET moovBox == findAndParseBox(fileBuffer, STR_moov)
    IN IF ~moovBox.found THEN NoMetadata
       ELSE LET metaBox == findAndParseBox(moovBox.data, STR_meta)
            IN IF ~metaBox.found THEN NoMetadata
               ELSE LET uuidBoxes == extractUUIDBoxes(metaBox.data)
                        traceBoxes == SelectSeq(uuidBoxes.boxes, IsTraceBox)
                    IN IF uuidBoxes.err THEN ExtractThrows
                       ELSE IF traceBoxes = <<>> THEN NoMetadata
                       ELSE ParseEnvelope(Utf8ToString(traceBoxes[1].data))

\* An embed that leaves the bytes of the file as they are
embedMetadataWebMKeepingFile(fileBuffer, manifest, signature) == fileBuffer

\* embedMetadataWebM on the bytes of the file: the marker is appended
embedMetadataWebM(fileBuffer, manifest, signature) ==
    fileBuffer \o <<10>> \o TRACE_WEBM_MARKER
    \o Base64Encode(MetadataEnvelope(manifest, signature)) \o WEBM_MARKER_END

\* extractMetadataWebM on the bytes of an existing file
extractMetadataWebM(fileBuffer) ==
    LET index == LastIndexOf(fileBuffer, TRACE_WEBM_MARKER)
    IN IF index = -1 THEN NoMetadata
       ELSE LET start == index + Len(TRACE_WEBM_MARKER)
                end == IndexOf(fileBuffer, WEBM_MARKER_END, start)
            IN IF end = -1 THEN NoMetadata
               ELSE ParseEnvelope(Utf8ToString(Base64Decode(
                        Utf8ToString(Subarray(fileBuffer, start, end)))))

------------------------------------------------------------------------------
(* Paths (String.split, path.basename, path.dirname, path.join)             *)

DOT == <<46>>
SLASH == <<47>>
STR_mp4 == <<109, 112, 52>>
STR_webm == <<119, 101, 98, 109>>
STR_prov_json == <<46, 112, 114, 111, 118, 46, 106, 115, 111, 110>>   \* ".prov.json"
STR_prov_sig == <<46, 112, 114, 111, 118, 46, 115, 105, 103>>          \* ".prov.sig"

\* str.split('.').pop(): the characters after the last dot, the whole string
\* when it has no dot
LastSegment(str) == SubarrayFrom(str, LastIndexOf(str, DOT) + 1)

\* str.toLowerCase() on ASCII
toLowerCase(str) ==
    [i \in 1..Len(str) |-> IF str[i] >= 65 /\ str[i] <= 90 THEN str[i] + 32 ELSE str[i]]

\* path.basename(path, suffix)
basename(path, suffix) ==
    LET base == SubarrayFrom(path, LastIndexOf(path, SLASH) + 1)
    IN IF Len(suffix) > 0 /\ Len(base) > Len(suffix)
          /\ MatchesAt(base, suffix, Len(base) - Len(suffix))
       THEN Subarray(base, 0, Len(base) - Len(suffix))
       ELSE base

\* path.dirname(path)
dirname(path) ==
    LET cut == LastIndexOf(path, SLASH)
    IN IF cut = -1 THEN DOT
       ELSE IF cut = 0 THEN SLASH
       ELSE Subarray(path, 0, cut)

\* path.join(dir, name) for a dir that dirname returned
join(dir, name) ==
    IF dir = DOT THEN name
    ELSE IF dir = SLASH THEN SLASH \o name
    ELSE dir \o SLASH \o name

\* Sidecar paths that keep the asset's extension: name.ext.prov.json
getSidecarPathsKeepingExt(videoPath) ==
    [manifestPath |-> videoPath \o STR_prov_json, signaturePath |-> videoPath \o STR_prov_sig]

\* getSidecarPaths(videoPath)
getSidecarPaths(videoPath) ==
    LET ext == LastSegment(videoPath)
        baseName == basename(videoPath, DOT \o ext)
        dir == dirname(videoPath)
        basePath == join(dir, baseName)
    IN [manifestPath |-> basePath \o STR_prov_json,
        signaturePath |-> basePath \o STR_prov_sig]

\* getMediaType(filePath): "mp4", "webm" or "none" (null)
getMediaType(filePath) ==
    LET ext == toLowerCase(LastSegment(filePath))
    IN IF ext = STR_mp4 THEN "mp4"
       ELSE IF ext = STR_webm THEN "webm"
       ELSE "none"

------------------------------------------------------------------------------
(* The file system                                                          *)

NoFile == <<-1>>

existsSync(files, path) == path \in DOMAIN files /\ files[path] # NoFile

\* extractMetadata(videoPath) for a file that exists
extractMetadata(files, videoPath) ==
    LET mediaType == getMediaType(videoPath)
    IN IF mediaType = "mp4" THEN extractMetadataMP4(files[videoPath])
       ELSE IF mediaType = "webm" THEN extractMetadataWebM(files[videoPath])
       ELSE NoMetadata

\* embedMetadata(videoPath, manifest, signature): [err, file], the bytes the
\* file holds afterwards; an unsupported media type throws.
embedMetadata(files, videoPath, manifest, signature) ==
    LET mediaType == getMediaType(videoPath)
    IN IF mediaType = "mp4" THEN embedMetadataMP4(files[videoPath], manifest, signature)
       ELSE IF mediaType = "webm"
            THEN [err |-> FALSE, file |-> embedMetadataWebM(files[videoPath], manifest, signature)]
       ELSE [err |-> TRUE, file |-> files[videoPath]]

------------------------------------------------------------------------------
(* SHA-256 and Ed25519                                                      *)
(*                                                                          *)
(* Both are ideal: a digest is the place of the digested bytes in the list  *)
(* of byte strings digested so far (oracle), so two byte strings have the   *)
(* same digest only if they are equal.  A byte string not digested yet has  *)
(* the digest it would get next.                                            *)

KeyIds == {1, 2}

\* The PEM text of key pair k's private key and of its public key
PrivateKeyPem(k) == <<83, 48 + k>>
PublicKeyPem(k) == <<80, 48 + k>>

\* createPublicKey(pem): the key pair a PEM text belongs to (a private key
\* gives its public key); ok = FALSE stands for the error thrown on text
\* that is no key.
createPublicKey(pem) ==
    IF \E k \in KeyIds : pem = PublicKeyPem(k) \/ pem = PrivateKeyPem(k)
    THEN [ok |-> TRUE, key |-> CHOOSE k \in KeyIds : pem = PublicKeyPem(k) \/ pem = PrivateKeyPem(k)]
    ELSE [ok |-> FALSE, key |-> 0]

DigestIndex(orc, bytes) ==
    IF \E i \in 1..Len(orc) : orc[i] = bytes
    THEN CHOOSE i \in 1..Len(orc) : orc[i] = bytes
    ELSE Len(orc) + 1

Digested(orc, bytes) == IF \E i \in 1..Len(orc) : orc[i] = bytes THEN orc ELSE Append(orc, bytes)

HexDigits == <<48, 49, 50, 51, 52, 53, 54, 55, 56, 57, 97, 98, 99, 100, 101, 102>>

\* hashSum.digest('hex')
DigestHex(orc, bytes) ==
    LET d == DigestIndex(orc, bytes)
    IN <<HexDigits[((d \div 16) % 16) + 1], HexDigits[(d % 16) + 1]>>

STR_sha256 == <<115, 104, 97, 50, 53, 54, 58>>   \* "sha256:"

\* computeFileHash(filePath) for a file that exists
computeFileHash(orc, files, filePath) == STR_sha256 \o DigestHex(orc, files[filePath])

\* sign(null, data, privateKey): the signature bytes
Ed25519Sign(orc, data, k) ==
    LET d == DigestIndex(orc, data)
    IN <<k, 237, d \div 256, d % 256>>

\* A verify that accepts every signature
Ed25519VerifyAccepting(orc, data, k, sig) == TRUE

\* verify(null, data, publicKey, signature)
Ed25519Verify(orc, data, k, sig) == sig = Ed25519Sign(orc, data, k)

\* A derivation that gives the public key of another key pair
extractPublicKeyOfOther(k) ==
    Base64Encode(Utf8FromString(PublicKeyPem(SetMax(KeyIds \ {k}))))

\* extractPublicKey(privateKey): base64 of the public key's PEM text
extractPublicKey(k) == Base64Encode(Utf8FromString(PublicKeyPem(k)))

\* signManifest(manifestJson, privateKey): base64 of the signature
signManifest(orc, manifestJson, k) ==
    Base64Encode(Ed25519Sign(orc, Utf8FromString(manifestJson), k))

------------------------------------------------------------------------------
(* The manifest                                                             *)

STR_claims == <<99, 108, 97, 105, 109, 115>>
STR_created_utc == <<99, 114, 101, 97, 116, 101, 100, 95, 117, 116, 99>>
STR_hash == <<104, 97, 115, 104>>
STR_id == <<105, 100>>
STR_input == <<105, 110, 112, 117, 116>>
STR_media_profile == <<109, 101, 100, 105, 97, 95, 112, 114, 111, 102, 105, 108, 101>>
STR_media_type == <<109, 101, 100, 105, 97, 95, 116, 121, 112, 101>>
STR_model == <<109, 111, 100, 101, 108>>
STR_name == <<110, 97, 109, 101>>
STR_nonce == <<110, 111, 110, 99, 101>>
STR_operation == <<111, 112, 101, 114, 97, 116, 105, 111, 110>>
STR_output == <<111, 117, 116, 112, 117, 116>>
STR_provider == <<112, 114, 111, 118, 105, 100, 101, 114>>
STR_public_key == <<112, 117, 98, 108, 105, 99, 95, 107, 101, 121>>
STR_spec_version == <<115, 112, 101, 99, 95, 118, 101, 114, 115, 105, 111, 110>>
STR_timestamps == <<116, 105, 109, 101, 115, 116, 97, 109, 112, 115>>
STR_version == <<118, 101, 114, 115, 105, 111, 110>>
STR_0_1 == <<48, 46, 49>>                                                     \* "0.1"
STR_video == <<118, 105, 100, 101, 111>>
STR_ai_generated == <<97, 105, 95, 103, 101, 110, 101, 114, 97, 116, 101, 100>>
STR_ai_transformed == <<97, 105, 95, 116, 114, 97, 110, 115, 102, 111, 114, 109, 101, 100>>
STR_video_mp4 == <<118, 105, 100, 101, 111, 47, 109, 112, 52>>                \* "video/mp4"
STR_video_webm == <<118, 105, 100, 101, 111, 47, 119, 101, 98, 109>>          \* "video/webm"

RECURSIVE sortKeys(_)
\* sortKeys(o) of canonicalJSON: keys = Object.keys(o).sort(), then
\* sorted[key] = sortKeys(o[key]) for each key in that order
sortKeys(o) ==
    IF o.t = "array"
    THEN [o EXCEPT !.m = [i \in 1..Len(o.m) |-> Member(<<>>, sortKeys(o.m[i].v))]]
    ELSE IF o.t = "object"
    THEN LET n == Len(o.m)
             Rank(i) == 1 + Cardinality({j \in 1..n : LexLess(o.m[j].k, o.m[i].k)})
             keys == [r \in 1..n |-> o.m[CHOOSE i \in 1..n : Rank(i) = r]]
             Build[r \in 0..n] ==
                 IF r = 0 THEN <<>>
                 ELSE SetProp(Build[r - 1], keys[r].k, sortKeys(keys[r].v))
         IN JObj(Build[n])
    ELSE o

\* canonicalJSON(obj)
canonicalJSON(obj) == JSONstringify(sortKeys(obj))

\* The manifest object createManifest builds, with its keys in the order of
\* the object literal
ManifestObject(operation, providerId, providerName, publicKey, modelId, modelVersion, createdUtc, inputHash, outputHash, mediaType, nonce) ==
    JObj(<<
        Member(STR_spec_version, JStr(STR_0_1)),
        Member(STR_media_profile, JStr(STR_video)),
        Member(STR_provider, JObj(<<Member(STR_id, JStr(providerId)),
                                    Member(STR_name, JStr(providerName)),
                                    Member(STR_public_key, JStr(publicKey))>>)),
        Member(STR_operation, JStr(operation)),
        Member(STR_model, JObj(<<Member(STR_id, JStr(modelId)),
                                 Member(STR_version, JStr(modelVersion))>>)),
        Member(STR_timestamps, JObj(<<Member(STR_created_utc, JStr(createdUtc))>>)),
        Member(STR_input, JObj(<<Member(STR_hash, inputHash)>>)),
        Member(STR_output, JObj(<<Member(STR_hash, JStr(outputHash)),
                                  Member(STR_media_type, JStr(mediaType))>>)),
        Member(STR_claims, JArr(<<JStr(operation)>>)),
        Member(STR_nonce, JStr(nonce))
    >>)

\* createManifest(videoPath, operation, provider, model, privateKey, inputHash)
\* for an asset that exists, with the clock's and the random generator's
\* answers as inputs: [manifest, signature, orc], orc the digests afterwards.
\* provider is [id, name, public_key], model is [id, version], privateKey the
\* key pair whose private key signs.
createManifest(orc, files, videoPath, operation, provider, model, privateKey, inputHash, createdUtc, nonce) ==
    LET orc1 == Digested(orc, files[videoPath])
        outputHash == computeFileHash(orc1, files, videoPath)
        ext == toLowerCase(LastSegment(videoPath))
        mediaType == IF ext = STR_webm THEN STR_video_webm ELSE STR_video_mp4
        manifest == ManifestObject(
            IF operation = STR_ai_generated THEN STR_ai_generated ELSE STR_ai_transformed,
            provider.id, provider.name,
            IF provider.public_key # <<>> THEN provider.public_key
            ELSE extractPublicKey(privateKey),
            model.id, model.version, createdUtc, inputHash, outputHash, mediaType, nonce)
        manifestJson == canonicalJSON(manifest)
        orc2 == Digested(orc1, Utf8FromString(manifestJson))
    IN [manifest |-> manifest,
        signature |-> signManifest(orc2, manifestJson, privateKey),
        orc |-> orc2]

\* saveSidecarFiles(videoPath, manifest, signature): the files afterwards
saveSidecarFiles(files, videoPath, manifest, signature) ==
    LET paths == getSidecarPaths(videoPath)
        canonicalJson == canonicalJSON(manifest)
    IN [files EXCEPT ![paths.manifestPath] = Utf8FromString(canonicalJson),
                     ![paths.signaturePath] = Utf8FromString(signature)]

------------------------------------------------------------------------------
(* Verification                                                             *)

Outcome(result, message, source) == [result |-> result, message |-> message, source |-> source]

\* o[key] as the verifier reads it: reading a property of null or undefined
\* throws a TypeError (ok = FALSE)
ReadProp(o, key) ==
    IF IsNullish(o) THEN [ok |-> FALSE, v |-> JUndefined]
    ELSE [ok |-> TRUE, v |-> Prop(o, key)]

\* Buffer.from(value, 'base64'): the bytes of a string; the values a parsed
\* manifest can hold in that place that are not strings throw a TypeError
BufferFromBase64(v) ==
    IF v.t = "string" THEN [ok |-> TRUE, bytes |-> Base64Decode(v.s)]
    ELSE [ok |-> FALSE, bytes |-> <<>>]

\* The outcomes verifyManifest returns.  source is its variable of that name
\* ("none" before it is set); the message of VALID ends with it.
VideoNotFound == Outcome("INCONCLUSIVE", "Video file not found", "none")
ManifestNotFound ==
    Outcome("INCONCLUSIVE", "Manifest file not found (neither embedded nor sidecar)", "none")
\* A missing signature file reported as tampering
SignatureNotFoundAsInvalid == Outcome("INVALID", "Signature verification failed", "none")
SignatureNotFound ==
    Outcome("INCONCLUSIVE", "Signature file not found (neither embedded nor sidecar)", "none")
SidecarUnreadable == Outcome("INCONCLUSIVE", "Error reading sidecar files", "none")
\* The second try block without its catch: the exception reaches the caller
VerificationErrorThrown(source) == Outcome("THROWN", "", source)
VerificationError(source) == Outcome("INCONCLUSIVE", "Verification error", source)
\* A failed signature reported with the reason of the hash comparison
SignatureFailedAsHashMismatch(source) ==
    Outcome("INVALID", "File hash mismatch - file may have been modified", source)
SignatureFailed(source) == Outcome("INVALID", "Signature verification failed", source)
HashMismatch(source) ==
    Outcome("INVALID", "File hash mismatch - file may have been modified", source)
Verified(source) == Outcome("VALID", "Provenance verified successfully", source)

\* A resolver that never takes the embedded pair
EmbeddedNeverResolved(embedded, embeddedManifest) == FALSE

\* The embedded branch of the first try block runs to its end: the extract
\* did not throw, returned a pair, and JSON.parse of its manifest succeeded
EmbeddedResolved(embedded, embeddedManifest) ==
    ~embedded.err /\ embedded.found /\ embeddedManifest.ok

\* The sidecar branch of the first try block and its catch: both files must
\* exist, and the manifest text must parse
ResolveSidecars(files, sidecarPaths) ==
    IF ~existsSync(files, sidecarPaths.manifestPath)
    THEN [from |-> "no manifest", manifest |-> JUndefined, signature |-> JUndefined]
    ELSE IF ~existsSync(files, sidecarPaths.signaturePath)
    THEN [from |-> "no signature", manifest |-> JUndefined, signature |-> JUndefined]
    ELSE LET parsed == JSONparse(Utf8ToString(files[sidecarPaths.manifestPath]))
         IN IF ~parsed.ok
            THEN [from |-> "unreadable", manifest |-> JUndefined, signature |-> JUndefined]
            ELSE [from |-> "sidecar files", manifest |-> parsed.v,
                  signature |-> JStr(Utf8ToString(files[sidecarPaths.signaturePath]))]

\* The choice between the embedded pair and the sidecar pair, given what the
\* extract returned and what JSON.parse made of its manifest
ResolveParsed(files, sidecarPaths, embedded, embeddedManifest) ==
    IF EmbeddedResolved(embedded, embeddedManifest)
    THEN [from |-> "embedded metadata", manifest |-> embeddedManifest.v,
          signature |-> embedded.signature]
    ELSE ResolveSidecars(files, sidecarPaths)

\* The embedded branch: JSON.parse of the manifest the extract returned (a
\* value that is not a string is converted to one first)
ResolveEmbedded(files, sidecarPaths, embedded) ==
    ResolveParsed(files, sidecarPaths, embedded, JSONparse(StringOf(embedded.manifest)))

\* The paths of the sidecar pair: the two given paths, or those derived from
\* the path of the video when one of them is not given
SidecarPathsFor(videoPath, manifestPath, signaturePath) ==
    IF manifestPath # <<>> /\ signaturePath # <<>>
    THEN [manifestPath |-> manifestPath, signaturePath |-> signaturePath]
    ELSE getSidecarPaths(videoPath)

\* The first try block of verifyManifest and its catch: the evidence the
\* verification runs on.  from is "embedded metadata" or "sidecar files" with
\* the parsed manifest and the signature value, or the reason why there is
\* none.
ResolveEvidence(files, videoPath, manifestPath, signaturePath) ==
    ResolveEmbedded(files, SidecarPathsFor(videoPath, manifestPath, signaturePath),
                    extractMetadata(files, videoPath))

\* The public key object of the verification: [ok, key], ok = FALSE when one
\* of the reads, the base64 decoding or createPublicKey throws
LoadPublicKey(manifest) ==
    LET provider == ReadProp(manifest, STR_provider)
        public_key == IF provider.ok THEN ReadProp(provider.v, STR_public_key)
                      ELSE provider
        pemBytes == IF public_key.ok THEN BufferFromBase64(public_key.v)
                    ELSE [ok |-> FALSE, bytes |-> <<>>]
    IN IF pemBytes.ok THEN createPublicKey(Utf8ToString(pemBytes.bytes))
       ELSE [ok |-> FALSE, key |-> 0]

\* A comparison that finds every pair of hashes equal
HashNeverDiffers(currentHash, manifestHash) == FALSE

\* currentHash !== manifestHash
HashDiffers(currentHash, manifestHash) ==
    ~(manifestHash.t = "string" /\ manifestHash.s = currentHash)

\* The second try block of verifyManifest and its catch
VerifyResolved(orc, files, videoPath, manifest, signature, source) ==
    LET canonicalJson == canonicalJSON(manifest)
        publicKeyObj == LoadPublicKey(manifest)
        data == Utf8FromString(canonicalJson)
        signatureBuffer == BufferFromBase64(signature)
        signatureValid == Ed25519Verify(orc, data, publicKeyObj.key, signatureBuffer.bytes)
        currentHash == computeFileHash(orc, files, videoPath)
        output == ReadProp(manifest, STR_output)
    IN IF ~publicKeyObj.ok \/ ~signatureBuffer.ok THEN VerificationError(source)
       ELSE IF ~signatureValid THEN SignatureFailed(source)
       ELSE IF ~output.ok THEN VerificationError(source)
       ELSE IF HashDiffers(currentHash, Prop(output.v, STR_hash)) THEN HashMismatch(source)
       ELSE Verified(source)

\* The rest of verifyManifest once the evidence is resolved: the three early
\* returns of the first try block, or the second try block
VerifyEvidence(orc, files, videoPath, evidence) ==
    CASE evidence.from = "no manifest" -> ManifestNotFound
      [] evidence.from = "no signature" -> SignatureNotFound
      [] evidence.from = "unreadable" -> SidecarUnreadable
      [] OTHER -> VerifyResolved(orc, files, videoPath, evidence.manifest,
                                 evidence.signature, evidence.from)

\* verifyManifest(videoPath, manifestPath, signaturePath); the empty string
\* stands for a path that is not given
verifyManifest(orc, files, videoPath, manifestPath, signaturePath) ==
    IF ~existsSync(files, videoPath) THEN VideoNotFound
    ELSE VerifyEvidence(orc, files, videoPath,
                        ResolveEvidence(files, videoPath, manifestPath, signaturePath))

------------------------------------------------------------------------------
(* The files, the keys and the inputs of the runs                           *)

STR_clip_mp4 == <<99, 108, 105, 112, 46, 109, 112, 52>>          \* "clip.mp4"
STR_clip_webm == <<99, 108, 105, 112, 46, 119, 101, 98, 109>>    \* "clip.webm"
STR_ftyp == <<102, 116, 121, 112>>
STR_free == <<102, 114, 101, 101>>
STR_mvhd == <<109, 118, 104, 100>>

VideoPaths == {STR_clip_mp4, STR_clip_webm}

SidecarPathsOf(videoPath) ==
    {getSidecarPaths(videoPath).manifestPath, getSidecarPaths(videoPath).signaturePath}

ManifestPaths == {getSidecarPaths(p).manifestPath : p \in VideoPaths}
SignaturePaths == {getSidecarPaths(p).signaturePath : p \in VideoPaths}
Paths == VideoPaths \cup ManifestPaths \cup SignaturePaths

\* An MP4 file: ftyp, moov with one child, free
SampleMP4 ==
    createBox(STR_ftyp, <<105, 115, 111, 109>>)
    \o createBox(STR_moov, createBox(STR_mvhd, <<0>>))
    \o createBox(STR_free, <<>>)

\* The first bytes of a WebM file (the EBML magic number)
SampleWebM == <<26, 69, 223, 163>>

\* A file with no moov box and no marker
OtherBytes == createBox(STR_free, <<7>>)

\* An MP4 file whose meta box holds a child with size field 1 and fewer than
\* sixteen bytes: extractUUIDBoxes reads past the end of the buffer
ThrowingMP4 ==
    createBox(STR_moov,
        createBox(STR_meta, <<0, 0, 0, 0>> \o <<0, 0, 0, 1>> \o STR_uuid \o <<0>>))
    \o createBox(STR_free, <<>>)

STR_not_json == <<120>>                          \* "x"
STR_empty_object == <<123, 125>>                 \* "{}"
STR_AAAA == <<65, 65, 65, 65>>                   \* base64 of three zero bytes
STR_not_a_key == <<101, 65, 61, 61>>             \* "eA==", base64 of "x"
STR_other_hash == STR_sha256 \o <<102, 102>>     \* "sha256:ff"

\* An MP4 file whose meta box holds a uuid box laid out as extractUUIDBoxes
\* reads one (four bytes between the type and the uuid), carrying the
\* envelope of a manifest "null"
ForeignMP4 ==
    createBox(STR_moov,
        createBox(STR_meta, <<0, 0, 0, 0>>
            \o createBox(STR_uuid, <<0, 0, 0, 0>> \o TRACE_UUID
                                   \o MetadataEnvelope(STR_null, STR_AAAA))))
    \o createBox(STR_free, <<>>)

Operations == {STR_ai_generated, STR_ai_transformed}

\* The provider and the model of a stamp made with key pair k
ProviderOf(k, given) ==
    [id |-> <<112, 48 + k>>, name |-> <<65, 99, 109, 101>>,
     public_key |-> IF given THEN extractPublicKey(k) ELSE <<>>]
ModelOf(k) == [id |-> <<109, 48 + k>>, version |-> <<49>>]

\* The clock's answer and the random generator's answer at the n-th step:
\* later instants, nonces that do not repeat
ClockAt(n) == <<84, 48 + n>>
NonceAt(n) == <<48, 48 + n>>

AttackerKey == SetMax(KeyIds)

NoOutcome == Outcome("", "", "")
Did(op, path, err, outcome) == [op |-> op, path |-> path, err |-> err, outcome |-> outcome]

\* The stamps that no longer stand once the files at paths are rewritten
Unstamped(stamps, paths) ==
    [q \in VideoPaths |-> IF SidecarPathsOf(q) \cap paths # {} THEN NoFile ELSE stamps[q]]

Init ==
    /\ fs = [p \in Paths |->
                IF p = STR_clip_mp4 THEN SampleMP4
                ELSE IF p = STR_clip_webm THEN SampleWebM
                ELSE NoFile]
    /\ oracle = <<>>
    /\ last = Did("init", <<>>, FALSE, NoOutcome)
    /\ stamped = [p \in VideoPaths |-> NoFile]
    /\ steps = 0

------------------------------------------------------------------------------
(* The operations                                                           *)

\* trace-stamp on an existing asset: createManifest, then saveSidecarFiles.
\* given: the provider's public key is handed over (base64 of the PEM text);
\* otherwise createManifest derives it from the private key.
Stamp(videoPath, operation, privateKey, given) ==
    /\ steps < MaxSteps
    /\ existsSync(fs, videoPath)
    /\ LET made == createManifest(oracle, fs, videoPath, operation,
                                  ProviderOf(privateKey, given), ModelOf(privateKey),
                                  privateKey,
                                  IF operation = STR_ai_transformed
                                  THEN JStr(STR_other_hash) ELSE JNull,
                                  ClockAt(steps), NonceAt(steps))
       IN /\ fs' = saveSidecarFiles(fs, videoPath, made.manifest, made.signature)
          /\ oracle' = made.orc
    /\ stamped' = [Unstamped(stamped, SidecarPathsOf(videoPath)) EXCEPT ![videoPath] = fs[videoPath]]
    /\ last' = Did("stamp", videoPath, FALSE, NoOutcome)
    /\ steps' = steps + 1

\* The canonical text of a manifest made elsewhere, for other bytes, under
\* another key
ForeignManifest ==
    canonicalJSON(ManifestObject(STR_ai_generated, <<112, 57>>, <<65, 99, 109, 101>>,
                                 extractPublicKey(AttackerKey), <<109, 57>>, <<49>>,
                                 ClockAt(0), JNull, STR_other_hash, STR_video_webm,
                                 NonceAt(9)))

\* The pairs of strings a caller hands to embedMetadata: the texts of the
\* asset's sidecar files, or a pair of its own
EmbedPayloads(videoPath) ==
    LET paths == getSidecarPaths(videoPath)
    IN (IF existsSync(fs, paths.manifestPath) /\ existsSync(fs, paths.signaturePath)
        THEN {<<Utf8ToString(fs[paths.manifestPath]), Utf8ToString(fs[paths.signaturePath])>>}
        ELSE {})
       \cup {<<STR_null, STR_AAAA>>, <<STR_not_json, STR_AAAA>>, <<ForeignManifest, STR_AAAA>>}

\* embedMetadata(videoPath, manifest, signature) on an existing asset; when
\* it throws, no file is written
Embed(videoPath, manifest, signature) ==
    /\ steps < MaxSteps
    /\ existsSync(fs, videoPath)
    /\ LET done == embedMetadata(fs, videoPath, manifest, signature)
       IN /\ fs' = IF done.err THEN fs ELSE [fs EXCEPT ![videoPath] = done.file]
          /\ last' = Did("embed", videoPath, done.err, NoOutcome)
    /\ steps' = steps + 1
    /\ UNCHANGED <<oracle, stamped>>

\* What another program may leave in an asset file
AssetEdits(videoPath) ==
    (IF existsSync(fs, videoPath) THEN {fs[videoPath] \o <<0>>, NoFile} ELSE {})
    \cup {OtherBytes}
    \cup (IF getMediaType(videoPath) = "mp4" THEN {ThrowingMP4, ForeignMP4} ELSE {})

\* Another program rewrites, extends or deletes an asset file
WriteAsset(videoPath, bytes) ==
    /\ steps < MaxSteps
    /\ bytes # fs[videoPath]
    /\ fs' = [fs EXCEPT ![videoPath] = bytes]
    /\ last' = Did("write asset", videoPath, FALSE, NoOutcome)
    /\ steps' = steps + 1
    /\ UNCHANGED <<oracle, stamped>>

\* manifest[outer][inner] = val on a parsed manifest whose outer member is an
\* object
SetInner(manifest, outer, inner, val) ==
    JObj(SetProp(manifest.m, outer, JObj(SetProp(Prop(manifest, outer).m, inner, val))))

\* delete manifest[key]
DeleteProp(manifest, key) == JObj(SelectSeq(manifest.m, LAMBDA e : e.k # key))

IsManifestShaped(v) ==
    /\ v.t = "object"
    /\ Prop(v, STR_provider).t = "object"
    /\ Prop(v, STR_output).t = "object"

\* What another program may leave in a sidecar manifest file
ManifestEdits(manifestPath) ==
    LET parsed == IF existsSync(fs, manifestPath)
                  THEN JSONparse(Utf8ToString(fs[manifestPath]))
                  ELSE [ok |-> FALSE, v |-> JNull]
    IN {NoFile, STR_not_json, STR_null, STR_empty_object}
       \cup (IF parsed.ok /\ IsManifestShaped(parsed.v)
             THEN {JSONstringify(SetInner(parsed.v, STR_provider, STR_public_key,
                                          JStr(STR_not_a_key))),
                   JSONstringify(SetInner(parsed.v, STR_output, STR_hash,
                                          JStr(STR_other_hash)))}
             ELSE {})

\* What another program may leave in a sidecar signature file
SignatureEdits(signaturePath) == {NoFile, STR_AAAA}

\* Another program rewrites or deletes a sidecar file
WriteSidecar(path, bytes) ==
    /\ steps < MaxSteps
    /\ bytes # fs[path]
    /\ fs' = [fs EXCEPT ![path] = IF bytes = NoFile THEN NoFile ELSE Utf8FromString(bytes)]
    /\ stamped' = Unstamped(stamped, {path})
    /\ last' = Did("write sidecar", path, FALSE, NoOutcome)
    /\ steps' = steps + 1
    /\ UNCHANGED oracle

\* The changes the holder of another key makes to a manifest before signing
\* it: none, the output member deleted, or output.hash set to the hash of an
\* existing asset
ForgeEdits ==
    {[kind |-> "none", path |-> <<>>], [kind |-> "no output", path |-> <<>>]}
    \cup {[kind |-> "rebind", path |-> p] : p \in {q \in VideoPaths : existsSync(fs, q)}}

\* The holder of another key pair takes the sidecar manifest of an asset,
\* puts its own public key in, changes it, signs it and writes both files
Forge(videoPath, edit) ==
    /\ steps < MaxSteps
    /\ LET paths == getSidecarPaths(videoPath)
           parsed == IF existsSync(fs, paths.manifestPath)
                     THEN JSONparse(Utf8ToString(fs[paths.manifestPath]))
                     ELSE [ok |-> FALSE, v |-> JNull]
           own == SetInner(parsed.v, STR_provider, STR_public_key,
                           JStr(extractPublicKey(AttackerKey)))
           orc1 == IF edit.kind = "rebind" THEN Digested(oracle, fs[edit.path]) ELSE oracle
           changed == IF edit.kind = "none" THEN own
                      ELSE IF edit.kind = "no output" THEN DeleteProp(own, STR_output)
                      ELSE SetInner(own, STR_output, STR_hash,
                                    JStr(computeFileHash(orc1, fs, edit.path)))
           manifestJson == canonicalJSON(changed)
           orc2 == Digested(orc1, Utf8FromString(manifestJson))
       IN /\ parsed.ok /\ IsManifestShaped(parsed.v)
          /\ fs' = [fs EXCEPT ![paths.manifestPath] = Utf8FromString(manifestJson),
                              ![paths.signaturePath] =
                                  Utf8FromString(signManifest(orc2, manifestJson, AttackerKey))]
          /\ oracle' = orc2
          /\ stamped' = Unstamped(stamped, SidecarPathsOf(videoPath))
    /\ last' = Did("forge", videoPath, FALSE, NoOutcome)
    /\ steps' = steps + 1

\* trace-verify: verifyManifest(videoPath) with the default sidecar paths
Verify(videoPath) ==
    /\ last' = Did("verify", videoPath, FALSE, verifyManifest(oracle, fs, videoPath, <<>>, <<>>))
    /\ UNCHANGED <<fs, oracle, stamped, steps>>

Next ==
    \/ \E p \in VideoPaths, operation \in Operations, k \in KeyIds, given \in BOOLEAN :
          Stamp(p, operation, k, given)
    \/ \E p \in VideoPaths : \E pair \in EmbedPayloads(p) : Embed(p, pair[1], pair[2])
    \/ \E p \in VideoPaths : \E bytes \in AssetEdits(p) : WriteAsset(p, bytes)
    \/ \E path \in ManifestPaths : \E bytes \in ManifestEdits(path) : WriteSidecar(path, bytes)
    \/ \E path \in SignaturePaths : \E bytes \in SignatureEdits(path) : WriteSidecar(path, bytes)
    \/ \E p \in VideoPaths : \E edit \in ForgeEdits : Forge(p, edit)
    \/ \E p \in VideoPaths : Verify(p)

Spec == Init /\ [][Next]_vars

------------------------------------------------------------------------------
(* Corruption of the signature sidecar: one character of its base64 text   *)
(* is replaced by another character of the base64 alphabet                  *)

\* The characters that take the place of ch: the next one of the alphabet
\* (the lowest bit of its 6-bit value changes) and the one half the alphabet
\* away (the highest bit changes); a padding "=" counts as value 0
ReplacementsOf(ch) ==
    LET v == IF IsB64Char(ch) THEN B64Value(ch) ELSE 0
    IN {B64Alphabet[((v + 1) % 64) + 1], B64Alphabet[((v + 32) % 64) + 1]} \ {ch}

\* Another program replaces the i-th character of a signature file
CorruptSignature(signaturePath, i, c) ==
    /\ steps < MaxSteps
    /\ existsSync(fs, signaturePath)
    /\ i \in 1..Len(fs[signaturePath])
    /\ c \in ReplacementsOf(fs[signaturePath][i])
    /\ fs' = [fs EXCEPT ![signaturePath][i] = c]
    /\ stamped' = Unstamped(stamped, {signaturePath})
    /\ last' = Did("corrupt signature", signaturePath, FALSE, NoOutcome)
    /\ steps' = steps + 1
    /\ UNCHANGED oracle

\* The longest base64 text of a signature: four bytes give eight characters
SignatureTextLen == 8

NextCorrupt ==
    \/ \E p \in VideoPaths, k \in KeyIds : Stamp(p, STR_ai_generated, k, TRUE)
    \/ \E path \in SignaturePaths : \E i \in 1..SignatureTextLen :
          \E c \in ReplacementsOf(IF existsSync(fs, path) /\ i <= Len(fs[path])
                                  THEN fs[path][i] ELSE 0) :
             CorruptSignature(path, i, c)
    \/ \E p \in VideoPaths : Verify(p)

SpecCorrupt == Init /\ [][NextCorrupt]_vars

------------------------------------------------------------------------------
(* The MP4 codec on its own: embedMetadataMP4 applied again and again to    *)
(* one file                                                                 *)

MaxEmbeds == 2

\* An MP4 file whose moov box holds an empty meta box
EmptyMetaMP4 ==
    createBox(STR_ftyp, <<105, 115, 111, 109>>)
    \o createBox(STR_moov, createBox(STR_mvhd, <<0>>) \o createMetaBox(<<>>))
    \o createBox(STR_free, <<>>)

\* An MP4 file whose meta box holds the uuid box of another vendor
OtherVendorMP4 ==
    createBox(STR_moov,
        createMetaBox(<<[uuid |-> [i \in 1..16 |-> 64 + i], data |-> <<1, 2, 3>>]>>))
    \o createBox(STR_free, <<>>)

\* An MP4 file that ends with its moov box
MoovLastMP4 ==
    createBox(STR_ftyp, <<105, 115, 111, 109>>)
    \o createBox(STR_moov, createBox(STR_mvhd, <<0>>))

MP4Files == {SampleMP4, EmptyMetaMP4, OtherVendorMP4, MoovLastMP4, OtherBytes}

Manifests == {<<109, 49>>, <<123, 34, 97, 34, 58, 49, 125>>, <<>>}   \* "m1", "{"a":1}", ""
Signatures == {<<115, 49>>, STR_AAAA}                                 \* "s1", "AAAA"

DidEmbed(manifest, signature, err, before, count) ==
    [op |-> "embedMP4", manifest |-> manifest, signature |-> signature, err |-> err,
     before |-> before, count |-> count]

InitMP4 ==
    /\ fs \in {[p \in {STR_clip_mp4} |-> bytes] : bytes \in MP4Files}
    /\ oracle = <<>>
    /\ last = [DidEmbed(<<>>, <<>>, FALSE, <<>>, 0) EXCEPT !.op = "init"]
    /\ stamped = <<>>
    /\ steps = 0

\* embedMetadataMP4(videoPath, manifest, signature): the file is written
\* unless the embed throws; count is the number of embeds that wrote it
EmbedMP4(manifest, signature) ==
    /\ steps < MaxEmbeds
    /\ LET done == embedMetadataMP4(fs[STR_clip_mp4], manifest, signature)
       IN /\ fs' = [fs EXCEPT ![STR_clip_mp4] = done.file]
          /\ last' = DidEmbed(manifest, signature, done.err, fs[STR_clip_mp4],
                              IF done.err THEN last.count ELSE last.count + 1)
    /\ steps' = steps + 1
    /\ UNCHANGED <<oracle, stamped>>

NextMP4 == \E manifest \in Manifests, signature \in Signatures : EmbedMP4(manifest, signature)

SpecMP4 == InitMP4 /\ [][NextMP4]_vars

------------------------------------------------------------------------------
(* Reading a meta box by the layout createUUIDBox writes                    *)

RECURSIVE VendorBoxesFrom(_, _)
\* The uuid boxes of a meta payload made of well-formed boxes, each read as
\* createUUIDBox lays it out: size, "uuid", 16 bytes of uuid, data
VendorBoxesFrom(payload, offset) ==
    IF offset + 8 > Len(payload) THEN <<>>
    ELSE LET size == readUInt32BE(payload, offset)
             type == Subarray(payload, offset + 4, offset + 8)
             rest == IF size < 8 THEN <<>> ELSE VendorBoxesFrom(payload, offset + size)
         IN IF type = STR_uuid /\ size >= 24
            THEN <<[uuid |-> Subarray(payload, offset + 8, offset + 24),
                    data |-> Subarray(payload, offset + 24, offset + size)]>> \o rest
            ELSE rest

\* The uuid boxes in moov/meta of a file, none when there is no such box
VendorBoxes(file) ==
    LET moovBox == findAndParseBox(file, STR_moov)
        metaBox == findAndParseBox(moovBox.data, STR_meta)
    IN IF moovBox.found /\ metaBox.found THEN VendorBoxesFrom(metaBox.data, 0) ELSE <<>>

TraceBoxes(file) == SelectSeq(VendorBoxes(file), IsTraceBox)

Found(manifest, signature) ==
    [err |-> FALSE, found |-> TRUE, manifest |-> JStr(manifest), signature |-> JStr(signature)]

\* C2: MP4 embed/extract round trip: after embedMetadataMP4(file, manifest,
\* signature) has written a file with a top-level moov box,
\* extractMetadataMP4 returns exactly {manifest, signature}.
C2_RoundTripMP4 ==
    (last.op = "embedMP4" /\ last.count >= 1 /\ ~last.err)
        => extractMetadataMP4(fs[STR_clip_mp4]) = Found(last.manifest, last.signature)

\* C3: re-embedding replaces instead of duplicating: after a second or later
\* embedMetadataMP4 with a payload other than the one the file carried,
\* moov/meta holds exactly one uuid box with the TRACE vendor UUID, that box
\* carries the latest payload, and meta holds as many uuid boxes as before
\* this embed.
C3_ReembedReplaces ==
    (/\ last.op = "embedMP4" /\ last.count >= 2 /\ ~last.err
     /\ TraceBoxes(last.before) # <<>>
     /\ TraceBoxes(last.before)[1].data # MetadataEnvelope(last.manifest, last.signature))
        => /\ Len(TraceBoxes(fs[STR_clip_mp4])) = 1
           /\ TraceBoxes(fs[STR_clip_mp4])[1].data
                 = MetadataEnvelope(last.manifest, last.signature)
           /\ Len(VendorBoxes(fs[STR_clip_mp4])) = Len(VendorBoxes(last.before))

------------------------------------------------------------------------------
(* Properties of verification                                               *)

Results == {"VALID", "INVALID", "INCONCLUSIVE"}

\* The asset carries embedded metadata whose manifest parses
CarriesManifest(files, videoPath) ==
    LET embedded == extractMetadata(files, videoPath)
    IN /\ ~embedded.err
       /\ embedded.found
       /\ JSONparse(StringOf(embedded.manifest)).ok

\* No embedded metadata can be extracted: the extract throws or returns null
NothingEmbedded(files, videoPath) ==
    LET embedded == extractMetadata(files, videoPath)
    IN embedded.err \/ ~embedded.found

\* The signature is the Ed25519 signature of the manifest's canonical
\* encoding under the key pair of manifest.provider.public_key
SignatureHolds(orc, manifest, signature) ==
    LET publicKey == LoadPublicKey(manifest)
    IN /\ publicKey.ok
       /\ signature.t = "string"
       /\ Base64Decode(signature.s)
            = Ed25519Sign(orc, Utf8FromString(canonicalJSON(manifest)), publicKey.key)

\* manifest.output.hash is the hash of the asset's bytes
HashHolds(orc, files, videoPath, manifest) ==
    /\ ~IsNullish(manifest)
    /\ ~IsNullish(Prop(manifest, STR_output))
    /\ Prop(Prop(manifest, STR_output), STR_hash) = JStr(computeFileHash(orc, files, videoPath))

\* The evidence of the verification last run, and whether it is a pair
Resolved == ResolveEvidence(fs, last.path, <<>>, <<>>)
IsPair(evidence) == evidence.from \in {"embedded metadata", "sidecar files"}

\* The asset last verified has been stamped, its sidecar files are as the
\* stamp left them, and its bytes are (are not) the stamped ones
StampedUnmodified ==
    /\ last.op = "verify" /\ existsSync(fs, last.path)
    /\ stamped[last.path] = fs[last.path]
StampedModified ==
    /\ last.op = "verify" /\ existsSync(fs, last.path)
    /\ stamped[last.path] # NoFile /\ stamped[last.path] # fs[last.path]

\* C1: no false positives: verifyManifest returns VALID only if the resolved
\* signature verifies over the canonical encoding of the resolved manifest
\* under manifest.provider.public_key and the hash of the asset's current
\* bytes equals manifest.output.hash.
C1_NoFalsePositives ==
    (last.op = "verify" /\ last.outcome.result = "VALID")
        => /\ existsSync(fs, last.path)
           /\ IsPair(Resolved)
           /\ SignatureHolds(oracle, Resolved.manifest, Resolved.signature)
           /\ HashHolds(oracle, fs, last.path, Resolved.manifest)

C1_Witness == last.op = "verify" /\ last.outcome.result = "VALID"

\* C4 as claimed: stamping any existing asset and then verifying the
\* unmodified asset returns VALID.
C4_StampThenVerifyAnyAsset == StampedUnmodified => last.outcome.result = "VALID"

\* C4: stamping an existing asset that carries no embedded metadata with a
\* parseable manifest, with the provider public key taken or derived from the
\* signing key, and then verifying the unmodified asset returns VALID.
C4_StampThenVerify ==
    (StampedUnmodified /\ ~CarriesManifest(fs, last.path))
        => last.outcome = Verified("sidecar files")

C4_Witness ==
    /\ StampedUnmodified /\ ~CarriesManifest(fs, last.path)
    /\ last.outcome.result = "VALID"

\* C5 as claimed: after a stamp, changed asset bytes with untouched sidecar
\* files give INVALID with the hash-mismatch reason.
C5_HashSensitivityAnyChange ==
    StampedModified => last.outcome = HashMismatch(last.outcome.source)

\* C5: after a stamp, if the asset's bytes are changed while the sidecar
\* files stay untouched and the changed asset carries no embedded metadata
\* with a parseable manifest, verifyManifest returns INVALID with the
\* hash-mismatch reason.
C5_HashSensitivity ==
    (StampedModified /\ ~CarriesManifest(fs, last.path))
        => last.outcome = HashMismatch("sidecar files")

C5_Witness ==
    /\ StampedModified
    /\ fs[last.path] = stamped[last.path] \o <<0>>
    /\ last.outcome = HashMismatch("sidecar files")

\* C6: missing evidence is INCONCLUSIVE: if the asset file does not exist, or
\* no embedded metadata can be extracted and the sidecar manifest file or the
\* sidecar signature file does not exist, verifyManifest returns
\* INCONCLUSIVE.
C6_MissingEvidence ==
    (/\ last.op = "verify"
     /\ \/ ~existsSync(fs, last.path)
        \/ /\ NothingEmbedded(fs, last.path)
           /\ \E path \in SidecarPathsOf(last.path) : ~existsSync(fs, path))
        => last.outcome.result = "INCONCLUSIVE"

C6_Witness ==
    /\ last.op = "verify" /\ existsSync(fs, last.path)
    /\ NothingEmbedded(fs, last.path)
    /\ existsSync(fs, getSidecarPaths(last.path).manifestPath)
    /\ ~existsSync(fs, getSidecarPaths(last.path).signaturePath)
    /\ last.outcome.result = "INCONCLUSIVE"

\* The verification last run reached the signature check: it resolved a
\* pair, the manifest's public key loaded and the signature is a string
SignatureChecked ==
    /\ last.op = "verify" /\ existsSync(fs, last.path)
    /\ IsPair(Resolved)
    /\ LoadPublicKey(Resolved.manifest).ok
    /\ Resolved.signature.t = "string"

CryptographicFailure ==
    /\ last.op = "verify" /\ existsSync(fs, last.path)
    /\ IsPair(Resolved)
    /\ ~IsNullish(Resolved.manifest)
    /\ ~IsNullish(Prop(Resolved.manifest, STR_provider))
    /\ Prop(Prop(Resolved.manifest, STR_provider), STR_public_key).t = "string"
    /\ Resolved.signature.t = "string"
    /\ ~SignatureHolds(oracle, Resolved.manifest, Resolved.signature)

\* C8: cryptographic failures are INVALID: whenever a manifest and a
\* signature have been resolved and parsed, a cryptographic failure,
\* including a manifest.provider.public_key that cannot be loaded as a public
\* key, makes verifyManifest return INVALID.
C8_CryptographicFailuresInvalid == CryptographicFailure => last.outcome.result = "INVALID"

WithSidecars(files, videoPath, manifestBytes, signatureBytes) ==
    [files EXCEPT ![getSidecarPaths(videoPath).manifestPath] = manifestBytes,
                  ![getSidecarPaths(videoPath).signaturePath] = signatureBytes]

\* C10: resolver order: verifyManifest decides from the embedded pair exactly
\* when the extract returns a pair whose manifest parses, and then the
\* outcome is the same whatever the sidecar files contain; otherwise it
\* consults the sidecar files, and a sidecar pair whose signature verifies
\* and whose hash matches is reported VALID.
C10_ResolverOrder ==
    (last.op = "verify" /\ existsSync(fs, last.path)) =>
        /\ CarriesManifest(fs, last.path) <=> last.outcome.source = "embedded metadata"
        /\ CarriesManifest(fs, last.path) =>
              \A manifestBytes \in {NoFile, STR_not_json, STR_empty_object},
                 signatureBytes \in {NoFile, STR_AAAA} :
                 verifyManifest(oracle, WithSidecars(fs, last.path, manifestBytes, signatureBytes),
                                last.path, <<>>, <<>>) = last.outcome
        /\ (/\ ~CarriesManifest(fs, last.path)
            /\ Resolved.from = "sidecar files"
            /\ SignatureHolds(oracle, Resolved.manifest, Resolved.signature)
            /\ HashHolds(oracle, fs, last.path, Resolved.manifest))
              => last.outcome = Verified("sidecar files")

\* An embedded pair decides while both sidecar files exist
C10_Witness ==
    /\ last.op = "verify" /\ existsSync(fs, last.path)
    /\ CarriesManifest(fs, last.path)
    /\ \A path \in SidecarPathsOf(last.path) : existsSync(fs, path)
    /\ last.outcome.source = "embedded metadata"

\* The fallback verifies
C10_FallbackWitness ==
    /\ last.op = "verify"
    /\ NothingEmbedded(fs, last.path)
    /\ last.outcome = Verified("sidecar files")

------------------------------------------------------------------------------
(* Corruption of the signature text                                         *)

\* text is original with exactly one character replaced by another character
\* of the base64 alphabet
OneCharReplaced(text, original) ==
    /\ Len(text) = Len(original)
    /\ \E i \in 1..Len(text) :
          /\ text[i] # original[i]
          /\ IsB64Char(text[i])
          /\ \A j \in 1..Len(text) : j # i => text[j] = original[j]

\* The signature text signManifest gives for the manifest under the key pair
\* the manifest names
StampedSignature(orc, manifest) ==
    signManifest(orc, canonicalJSON(manifest), LoadPublicKey(manifest).key)

\* The evidence is a sidecar pair as a stamp of the unmodified asset left
\* it, but for one replaced character of the signature text
CorruptedStamp(orc, files, videoPath, evidence) ==
    /\ evidence.from = "sidecar files"
    /\ LoadPublicKey(evidence.manifest).ok
    /\ HashHolds(orc, files, videoPath, evidence.manifest)
    /\ OneCharReplaced(evidence.signature.s, StampedSignature(orc, evidence.manifest))

\* C11: signature corruption is detected: after a successful stamp,
\* replacing any single character of the base64 text in the .prov.sig
\* sidecar by a different base64 character makes verifyManifest return
\* INVALID.
C11_SignatureCorruptionDetected ==
    (/\ last.op = "verify" /\ existsSync(fs, last.path)
     /\ CorruptedStamp(oracle, fs, last.path, Resolved))
        => last.outcome.result = "INVALID"

\* A replaced character that changes the signature's bytes is detected
C11_DetectedSometimes ==
    /\ last.op = "verify" /\ existsSync(fs, last.path)
    /\ CorruptedStamp(oracle, fs, last.path, Resolved)
    /\ last.outcome.result = "INVALID"

------------------------------------------------------------------------------
(* The canonical encoder on its own: values built member by member, then    *)
(* encoded                                                                  *)

MaxBuild == 3

BuildKeys == {<<97>>, <<98>>, <<57>>, <<49, 48>>}   \* "a", "b", "9", "10"
BuildLeaves == {JNum(<<49>>), JStr(<<120>>)}        \* 1, "x"

DidBuild(op, value, text) == [op |-> op, value |-> value, text |-> text]

InitCanonical ==
    /\ fs = <<>>
    /\ oracle = <<>>
    /\ last = DidBuild("init", JObj(<<>>), <<>>)
    /\ stamped = <<>>
    /\ steps = 0

\* value[key] = val
SetMember(key, val) ==
    /\ steps < MaxBuild
    /\ last.value.t = "object"
    /\ last' = DidBuild("set", JObj(SetProp(last.value.m, key, val)), <<>>)
    /\ steps' = steps + 1
    /\ UNCHANGED <<fs, oracle, stamped>>

\* value = { [key]: value }
Wrap(key) ==
    /\ steps < MaxBuild
    /\ last' = DidBuild("wrap", JObj(<<Member(key, last.value)>>), <<>>)
    /\ steps' = steps + 1
    /\ UNCHANGED <<fs, oracle, stamped>>

\* value = ["b", value, "a"]
InArray ==
    /\ steps < MaxBuild
    /\ last' = DidBuild("array", JArr(<<JStr(<<98>>), last.value, JStr(<<97>>)>>), <<>>)
    /\ steps' = steps + 1
    /\ UNCHANGED <<fs, oracle, stamped>>

\* canonicalJSON(value)
Encode ==
    /\ last.op # "encode"
    /\ last' = DidBuild("encode", last.value, canonicalJSON(last.value))
    /\ UNCHANGED <<fs, oracle, stamped, steps>>

NextCanonical ==
    \/ \E key \in BuildKeys, val \in BuildLeaves : SetMember(key, val)
    \/ \E key \in BuildKeys : Wrap(key)
    \/ InArray
    \/ Encode

SpecCanonical == InitCanonical /\ [][NextCanonical]_vars

RECURSIVE InsertAll(_, _, _, _)
\* The members an object lists after members[order[i]], members[order[i+1]],
\* ... are set on it in that order with the values vals
InsertAll(sofar, members, order, vals) ==
    IF Len(sofar) = Len(members) THEN sofar
    ELSE LET i == order[Len(sofar) + 1]
         IN InsertAll(SetProp(sofar, members[i].k, vals[i]), members, order, vals)

RECURSIVE Rebuilds(_)
\* The values equal to v that some order of insertions builds, at every depth
Rebuilds(v) ==
    IF v.t \notin {"array", "object"} THEN {v}
    ELSE LET n == Len(v.m)
             choices == {vals \in [1..n -> UNION {Rebuilds(v.m[i].v) : i \in 1..n}] :
                            \A i \in 1..n : vals[i] \in Rebuilds(v.m[i].v)}
             orders == {order \in [1..n -> 1..n] :
                            \A i, j \in 1..n : order[i] = order[j] => i = j}
         IN IF v.t = "array" THEN {JArr(vals) : vals \in choices}
            ELSE {JObj(InsertAll(<<>>, v.m, order, vals)) : order \in orders, vals \in choices}

RECURSIVE LexSorted(_)
\* v with the members of every object listed by key in lexicographic order
LexSorted(v) ==
    IF v.t = "array" THEN JArr([i \in 1..Len(v.m) |-> LexSorted(v.m[i].v)])
    ELSE IF v.t = "object"
    THEN LET n == Len(v.m)
             Rank(i) == 1 + Cardinality({j \in 1..n : LexLess(v.m[j].k, v.m[i].k)})
         IN JObj([r \in 1..n |->
                    LET i == CHOOSE i \in 1..n : Rank(i) = r
                    IN Member(v.m[i].k, LexSorted(v.m[i].v))])
    ELSE v

RECURSIVE ArraysKept(_)
\* The encoding of every array in v is "[", the encodings of its elements in
\* their order separated by commas, "]"
ArraysKept(v) ==
    /\ v.t = "array" =>
          canonicalJSON(v) = <<91>> \o Concat([i \in 1..Len(v.m) |->
                                (IF i > 1 THEN <<44>> ELSE <<>>) \o canonicalJSON(v.m[i].v)])
                             \o <<93>>
    /\ \A i \in 1..Len(v.m) : ArraysKept(v.m[i].v)

\* Equal values built in different orders encode to the same bytes
Deterministic == \A v \in Rebuilds(last.value) : canonicalJSON(v) = last.text

\* The encoding lists every object's keys in lexicographic order
LexicographicKeys == last.text = JSONstringify(LexSorted(last.value))

\* C12: canonical determinism: canonicalJSON gives byte-identical output for
\* two values that are equal but were built with different key insertion
\* orders at any nesting depth, it emits every object's keys in
\* lexicographic order, and it keeps the order and contents of arrays
\* unchanged.
C12_CanonicalDeterminism ==
    last.op = "encode" => Deterministic /\ LexicographicKeys /\ ArraysKept(last.value)

\* The parts of C12 that hold: determinism and arrays
C12_DeterministicAndArrays ==
    last.op = "encode" => Deterministic /\ ArraysKept(last.value)

\* A value whose nested object can be built in two orders, encoded
C12_RebuiltWitness ==
    /\ last.op = "encode"
    /\ Cardinality(Rebuilds(last.value)) >= 2
    /\ \E i \in 1..Len(last.value.m) :
          last.value.m[i].v.t = "object" /\ Len(last.value.m[i].v.m) >= 2

------------------------------------------------------------------------------
(* The box scan on files that are not what embedMetadataMP4 writes: no      *)
(* moov box, boxes with a 64-bit size, sizes that run past the end          *)

\* A box with a 64-bit size as ISO-BMFF lays it out: the size field 1, the
\* type, the size in eight bytes, the payload
createExtendedBox(type, data) ==
    UInt32BE(1) \o type \o UInt32BE(0) \o UInt32BE(16 + Len(data)) \o data

\* A box whose size field says declared, whatever its payload
createBoxOfSize(type, data, declared) == UInt32BE(declared) \o type \o data

\* No moov box: a free box with a 64-bit size whose payload starts with the
\* characters "moov"
ExtendedFreeMP4 ==
    createExtendedBox(STR_free, STR_moov \o <<0, 0, 0, 0>>) \o createBox(STR_ftyp, <<1>>)

\* No top-level moov box: the only moov box lies inside a free box
NestedMoovMP4 == createBox(STR_free, createBox(STR_moov, createBox(STR_mvhd, <<0>>)))

\* A moov box with a 64-bit size between two other boxes, a free box with a
\* 64-bit size before it
ExtendedMoovMP4 ==
    createExtendedBox(STR_free, <<1, 2>>)
    \o createExtendedBox(STR_moov, createBox(STR_mvhd, <<0>>))
    \o createBox(STR_free, <<>>)

\* The moov box says it is 64 bytes long; the file ends after 17 of them
OversizeMoovMP4 ==
    createBox(STR_ftyp, <<105, 115, 111, 109>>)
    \o createBoxOfSize(STR_moov, createBox(STR_mvhd, <<0>>), 64)

\* The box before the moov box says it is 64 bytes long
OversizeBeforeMP4 ==
    createBoxOfSize(STR_ftyp, <<105, 115, 111, 109>>, 64)
    \o createBox(STR_moov, createBox(STR_mvhd, <<0>>))

\* The file ends with a moov box of eight bytes (no payload)
BareMoovLastMP4 == createBox(STR_ftyp, <<105, 115, 111, 109>>) \o createBox(STR_moov, <<>>)

\* A meta box at the top level, then a free box with one byte
MetaFirstMP4 == createMetaBox(<<>>) \o createBox(STR_free, <<7>>)

ContainerFiles ==
    {SampleMP4, OtherBytes, <<>>, <<0, 0, 0>>, ExtendedFreeMP4, NestedMoovMP4,
     ExtendedMoovMP4, OversizeMoovMP4, OversizeBeforeMP4, BareMoovLastMP4, MetaFirstMP4,
     MoovLastMP4}

FindTypes == {STR_moov, STR_meta, STR_free, STR_ftyp}

DidExtract(result, count) == [op |-> "extractMP4", result |-> result, count |-> count]
DidFind(boxType, box, count) == [op |-> "find", boxType |-> boxType, box |-> box, count |-> count]

InitContainer ==
    /\ fs \in {[p \in {STR_clip_mp4} |-> bytes] : bytes \in ContainerFiles}
    /\ oracle = <<>>
    /\ last = [DidEmbed(<<>>, <<>>, FALSE, <<>>, 0) EXCEPT !.op = "init"]
    /\ stamped = <<>>
    /\ steps = 0

\* extractMetadataMP4(videoPath)
ExtractMP4 ==
    /\ last' = DidExtract(extractMetadataMP4(fs[STR_clip_mp4]), last.count)
    /\ UNCHANGED <<fs, oracle, stamped, steps>>

\* findAndParseBox(fileBuffer, boxType)
FindBox(boxType) ==
    /\ last' = DidFind(boxType, findAndParseBox(fs[STR_clip_mp4], boxType), last.count)
    /\ UNCHANGED <<fs, oracle, stamped, steps>>

NextContainer ==
    \/ \E manifest \in Manifests, signature \in Signatures : EmbedMP4(manifest, signature)
    \/ ExtractMP4
    \/ \E boxType \in FindTypes : FindBox(boxType)

SpecContainer == InitContainer /\ [][NextContainer]_vars

------------------------------------------------------------------------------
(* The boxes of a buffer as ISO-BMFF lays them out                          *)

\* The box that starts at offset: its type after the 32-bit size field, a
\* size field of 1 followed by the size in eight bytes after the type, a
\* size field of 0 for a box that runs to the end of the buffer
BoxAt(buffer, offset) ==
    LET size32 == readUInt32BE(buffer, offset)
    IN [type |-> Subarray(buffer, offset + 4, offset + 8),
        start |-> offset,
        header |-> IF size32 = 1 THEN 16 ELSE 8,
        size |-> IF size32 = 1
                 THEN (IF CanRead(buffer, offset + 8, 8)
                       THEN readUInt64BE(buffer, offset + 8) ELSE HugeSize)
                 ELSE IF size32 = 0 THEN Len(buffer) - offset
                 ELSE size32]

RECURSIVE BoxesFrom(_, _)
\* The consecutive boxes of buffer from offset on; the list ends with a box
\* that is shorter than its header or runs past the end
BoxesFrom(buffer, offset) ==
    IF offset + 8 > Len(buffer) THEN <<>>
    ELSE LET box == BoxAt(buffer, offset)
         IN IF box.size < box.header \/ offset + box.size > Len(buffer) THEN <<box>>
            ELSE <<box>> \o BoxesFrom(buffer, offset + box.size)

Boxes(buffer) == BoxesFrom(buffer, 0)

\* The buffer is made of well-formed consecutive boxes
WellFormed(buffer) ==
    LET boxes == Boxes(buffer)
        n == Len(boxes)
    IN \/ buffer = <<>>
       \/ /\ n >= 1
          /\ \A i \in 1..n : boxes[i].size >= boxes[i].header
          /\ boxes[n].start + boxes[n].size = Len(buffer)

\* The places in Boxes(buffer) of the boxes of that type
BoxesOfType(buffer, type) == {i \in 1..Len(Boxes(buffer)) : Boxes(buffer)[i].type = type}

\* C13: missing moov: for a file with no top-level moov box,
\* embedMetadataMP4 fails with an error and leaves the file's bytes
\* unchanged, while extractMetadataMP4 returns the no-metadata value (null)
\* without raising an error.
C13_MissingMoov ==
    /\ (last.op = "embedMP4" /\ BoxesOfType(last.before, STR_moov) = {})
          => last.err /\ fs[STR_clip_mp4] = last.before
    /\ (last.op = "extractMP4" /\ BoxesOfType(fs[STR_clip_mp4], STR_moov) = {})
          => last.result = NoMetadata

\* The extract half of C13, and the embed half on files in which no box has
\* a 64-bit size
C13_MissingMoovPlainBoxes ==
    /\ (/\ last.op = "embedMP4" /\ BoxesOfType(last.before, STR_moov) = {}
        /\ \A i \in 1..Len(Boxes(last.before)) : Boxes(last.before)[i].header = 8)
          => last.err /\ fs[STR_clip_mp4] = last.before
    /\ (last.op = "extractMP4" /\ BoxesOfType(fs[STR_clip_mp4], STR_moov) = {})
          => last.result = NoMetadata

\* C14: malformed or truncated container on embed: when the moov box (or a
\* box before it) declares a size that runs past the end of the file,
\* embedMetadataMP4 aborts with an error and the asset file is left
\* byte-for-byte unmodified.
C14_TruncatedContainer ==
    (/\ last.op = "embedMP4"
     /\ \E i \in 1..Len(Boxes(last.before)) :
           /\ Boxes(last.before)[i].start + Boxes(last.before)[i].size > Len(last.before)
           /\ \A j \in 1..(i - 1) : Boxes(last.before)[j].type # STR_moov)
        => last.err /\ fs[STR_clip_mp4] = last.before

\* The half of C14 that holds: a box before the moov box runs past the end
C14_TruncatedBeforeMoov ==
    (/\ last.op = "embedMP4"
     /\ \E i \in 1..Len(Boxes(last.before)) :
           /\ Boxes(last.before)[i].start + Boxes(last.before)[i].size > Len(last.before)
           /\ \A j \in 1..i : Boxes(last.before)[j].type # STR_moov)
        => last.err /\ fs[STR_clip_mp4] = last.before

------------------------------------------------------------------------------
(* The WebM marker on its own: embedMetadataWebM applied again and again    *)
(* to one file                                                              *)

\* A file that already holds the start of a marker and the end of a comment
MarkedWebM == SampleWebM \o TRACE_WEBM_MARKER \o STR_AAAA \o <<10>> \o WEBM_MARKER_END \o <<0>>

\* A file that ends in the middle of a marker
CutMarkerWebM == SampleWebM \o <<10>> \o TRACE_WEBM_MARKER \o <<65, 65>>

WebMFiles == {SampleWebM, <<>>, MarkedWebM, CutMarkerWebM}

\* "m1", {"a":1}, "", a\"-->, <!--TRACEPROV:
WebMManifests ==
    {<<109, 49>>, <<123, 34, 97, 34, 58, 49, 125>>, <<>>, <<97, 92, 34, 45, 45, 62>>,
     TRACE_WEBM_MARKER}
WebMSignatures == {<<115, 49>>, STR_AAAA \o <<61>>}   \* "s1", "AAAA="

DidEmbedWebM(manifest, signature, before, count) ==
    [op |-> "embedWebM", manifest |-> manifest, signature |-> signature,
     before |-> before, count |-> count]

InitWebM ==
    /\ fs \in {[p \in {STR_clip_webm} |-> bytes] : bytes \in WebMFiles}
    /\ oracle = <<>>
    /\ last = [DidEmbedWebM(<<>>, <<>>, <<>>, 0) EXCEPT !.op = "init"]
    /\ stamped = <<>>
    /\ steps = 0

\* embedMetadataWebM(videoPath, manifest, signature)
EmbedWebM(manifest, signature) ==
    /\ steps < MaxEmbeds
    /\ fs' = [fs EXCEPT ![STR_clip_webm] =
                 embedMetadataWebM(fs[STR_clip_webm], manifest, signature)]
    /\ last' = DidEmbedWebM(manifest, signature, fs[STR_clip_webm], last.count + 1)
    /\ steps' = steps + 1
    /\ UNCHANGED <<oracle, stamped>>

NextWebM ==
    \E manifest \in WebMManifests, signature \in WebMSignatures : EmbedWebM(manifest, signature)

SpecWebM == InitWebM /\ [][NextWebM]_vars

\* C15: WebM marker round trip: for any file bytes and any (manifest,
\* signature) strings of printable ASCII characters, extractMetadataWebM
\* after embedMetadataWebM returns exactly {manifest, signature}; the embed
\* only appends the marker, so the original bytes remain an unchanged prefix
\* of the file.
C15_RoundTripWebM ==
    last.op = "embedWebM"
        => /\ extractMetadataWebM(fs[STR_clip_webm]) = Found(last.manifest, last.signature)
           /\ Len(fs[STR_clip_webm]) > Len(last.before)
           /\ Subarray(fs[STR_clip_webm], 0, Len(last.before)) = last.before

\* A second embed with another pair into a file that already carries a
\* marker: the extract returns the later pair
C15_Witness ==
    /\ last.op = "embedWebM" /\ last.count = 2
    /\ extractMetadataWebM(last.before).found
    /\ extractMetadataWebM(last.before) # Found(last.manifest, last.signature)
    /\ extractMetadataWebM(fs[STR_clip_webm]) = Found(last.manifest, last.signature)

------------------------------------------------------------------------------
(* Stamps of assets in several directories                                  *)

\* "clip.mp4", "d/a.b.webm", "/v.mp4"
LayoutPaths ==
    {STR_clip_mp4,
     <<100, 47, 97, 46, 98, 46, 119, 101, 98, 109>>,
     <<47, 118, 46, 109, 112, 52>>}

\* name.ext without ".ext", directory included
StemOf(path) == Subarray(path, 0, LastIndexOf(path, DOT))

\* The sidecar paths of the layout: name.prov.json and name.prov.sig next to
\* the asset
LayoutManifestPath(path) == StemOf(path) \o STR_prov_json
LayoutSignaturePath(path) == StemOf(path) \o STR_prov_sig

InitLayout ==
    /\ fs = [p \in LayoutPaths
                   \cup {LayoutManifestPath(q) : q \in LayoutPaths}
                   \cup {LayoutSignaturePath(q) : q \in LayoutPaths}
                   \cup UNION {SidecarPathsOf(q) : q \in LayoutPaths} |->
                IF p \in LayoutPaths
                THEN (IF getMediaType(p) = "mp4" THEN SampleMP4 ELSE SampleWebM)
                ELSE NoFile]
    /\ oracle = <<>>
    /\ last = Did("init", <<>>, FALSE, NoOutcome)
    /\ stamped = [p \in VideoPaths |-> NoFile]
    /\ steps = 0

\* trace-stamp on an asset at any path: createManifest, then
\* saveSidecarFiles
StampAsset(videoPath, operation, privateKey) ==
    /\ steps < MaxSteps
    /\ existsSync(fs, videoPath)
    /\ LET made == createManifest(oracle, fs, videoPath, operation,
                                  ProviderOf(privateKey, TRUE), ModelOf(privateKey),
                                  privateKey,
                                  IF operation = STR_ai_transformed
                                  THEN JStr(STR_other_hash) ELSE JNull,
                                  ClockAt(steps), NonceAt(steps))
       IN /\ fs' = saveSidecarFiles(fs, videoPath, made.manifest, made.signature)
          /\ oracle' = made.orc
    /\ last' = Did("stamp", videoPath, FALSE, NoOutcome)
    /\ steps' = steps + 1
    /\ UNCHANGED stamped

NextLayout ==
    \/ \E p \in LayoutPaths, operation \in Operations, k \in KeyIds : StampAsset(p, operation, k)
    \/ \E p \in LayoutPaths : Verify(p)

SpecLayout == InitLayout /\ [][NextLayout]_vars

\* The manifest file holds the canonical encoding of the manifest it
\* carries, and the signature file the base64 text of the signature of
\* exactly those bytes under the key pair the manifest names
CanonicalSignedPair(orc, manifestBytes, signatureBytes) ==
    LET parsed == JSONparse(Utf8ToString(manifestBytes))
    IN /\ parsed.ok
       /\ manifestBytes = Utf8FromString(canonicalJSON(parsed.v))
       /\ LoadPublicKey(parsed.v).ok
       /\ signatureBytes
            = Utf8FromString(Base64Encode(
                 Ed25519Sign(orc, manifestBytes, LoadPublicKey(parsed.v).key)))

\* What a stamp of the asset at path has to leave behind, given the files
\* before (files) and after (files2)
StampLayout(orc, files, files2, path) ==
    /\ \A q \in DOMAIN files :
          q \notin {LayoutManifestPath(path), LayoutSignaturePath(path)} => files2[q] = files[q]
    /\ existsSync(files2, LayoutManifestPath(path))
    /\ existsSync(files2, LayoutSignaturePath(path))
    /\ CanonicalSignedPair(orc, files2[LayoutManifestPath(path)],
                           files2[LayoutSignaturePath(path)])
    /\ SidecarPathsFor(path, <<>>, <<>>)
         = [manifestPath |-> LayoutManifestPath(path),
            signaturePath |-> LayoutSignaturePath(path)]

\* C16: sidecar layout: for an asset name.ext, every successful stamp writes
\* exactly name.prov.json (the canonical encoding of the manifest, the same
\* bytes that were signed) and name.prov.sig (the base64 signature text) in
\* the asset's directory, and these are the paths verifyManifest reads when
\* no explicit paths are given: a verification right after the stamp
\* decides from the sidecar files.
C16_SidecarLayout ==
    [][/\ last'.op = "stamp" => StampLayout(oracle', fs, fs', last'.path)
       /\ (last.op = "stamp" /\ last'.op = "verify" /\ last'.path = last.path)
             => last'.outcome = Outcome("VALID", "Provenance verified successfully",
                                        "sidecar files")]_vars

\* A stamp of an asset in a directory of its own, after a stamp of another
\* asset, has written both sidecar files next to it
C16_Witness ==
    /\ last.op = "stamp" /\ steps = 2
    /\ LastIndexOf(last.path, SLASH) > 0
    /\ existsSync(fs, LayoutManifestPath(last.path))
    /\ existsSync(fs, LayoutSignaturePath(last.path))
    /\ \E q \in LayoutPaths \ {last.path} : existsSync(fs, LayoutManifestPath(q))

------------------------------------------------------------------------------
(* Two callers stamp the same asset at the same time: each runs            *)
(* createManifest, then the two writes of saveSidecarFiles                  *)

\* Caller c signs with key pair c
Callers == KeyIds

\* Where the callers are (pc: "start", "created", "wrote manifest", "done")
\* and what createManifest returned to each
Racing(op, path, pc, made, outcome) ==
    [op |-> op, path |-> path, err |-> FALSE, pc |-> pc, made |-> made, outcome |-> outcome]

InitRace ==
    /\ fs = [p \in Paths |->
                IF p = STR_clip_mp4 THEN SampleMP4
                ELSE IF p = STR_clip_webm THEN SampleWebM
                ELSE NoFile]
    /\ oracle = <<>>
    /\ \E p \in VideoPaths :
          last = Racing("init", p, [c \in Callers |-> "start"],
                        [c \in Callers |-> [manifest |-> JNull, signature |-> <<>>]],
                        NoOutcome)
    /\ stamped = [p \in VideoPaths |-> NoFile]
    /\ steps = 0

\* createManifest(videoPath, operation, provider, model, privateKey, inputHash)
CreateBy(c, operation) ==
    /\ last.op # "verify" /\ last.pc[c] = "start"
    /\ LET made == createManifest(oracle, fs, last.path, operation,
                                  ProviderOf(c, TRUE), ModelOf(c), c,
                                  IF operation = STR_ai_transformed
                                  THEN JStr(STR_other_hash) ELSE JNull,
                                  ClockAt(c), NonceAt(c))
       IN /\ oracle' = made.orc
          /\ last' = Racing("create", last.path, [last.pc EXCEPT ![c] = "created"],
                            [last.made EXCEPT ![c] = [manifest |-> made.manifest,
                                                      signature |-> made.signature]],
                            NoOutcome)
    /\ UNCHANGED <<fs, stamped, steps>>

\* The first write of saveSidecarFiles: writeFileSync(manifestPath, canonicalJson)
WriteManifestBy(c) ==
    /\ last.op # "verify" /\ last.pc[c] = "created"
    /\ fs' = [fs EXCEPT ![getSidecarPaths(last.path).manifestPath] =
                 Utf8FromString(canonicalJSON(last.made[c].manifest))]
    /\ last' = Racing("write manifest", last.path,
                      [last.pc EXCEPT ![c] = "wrote manifest"], last.made, NoOutcome)
    /\ UNCHANGED <<oracle, stamped, steps>>

\* The second write of saveSidecarFiles: writeFileSync(signaturePath, signature)
WriteSignatureBy(c) ==
    /\ last.op # "verify" /\ last.pc[c] = "wrote manifest"
    /\ fs' = [fs EXCEPT ![getSidecarPaths(last.path).signaturePath] =
                 Utf8FromString(last.made[c].signature)]
    /\ last' = Racing("write signature", last.path,
                      [last.pc EXCEPT ![c] = "done"], last.made, NoOutcome)
    /\ UNCHANGED <<oracle, stamped, steps>>

\* verifyManifest(videoPath) once both callers have returned
VerifyAfterRace ==
    /\ last.op # "verify" /\ \A c \in Callers : last.pc[c] = "done"
    /\ last' = Racing("verify", last.path, last.pc, last.made,
                      verifyManifest(oracle, fs, last.path, <<>>, <<>>))
    /\ UNCHANGED <<fs, oracle, stamped, steps>>

NextRace ==
    \/ \E c \in Callers, operation \in Operations : CreateBy(c, operation)
    \/ \E c \in Callers : WriteManifestBy(c)
    \/ \E c \in Callers : WriteSignatureBy(c)
    \/ VerifyAfterRace

SpecRace == InitRace /\ [][NextRace]_vars

\* The sidecar files hold the manifest and the signature of caller c
PairOf(c) ==
    /\ fs[getSidecarPaths(last.path).manifestPath]
         = Utf8FromString(canonicalJSON(last.made[c].manifest))
    /\ fs[getSidecarPaths(last.path).signaturePath] = Utf8FromString(last.made[c].signature)

\* C17: last writer wins: when two callers stamp the same asset path
\* concurrently, each performing the two sidecar writes of saveSidecarFiles
\* (manifest file, then signature file), then in every interleaving the
\* final sidecar pair is the manifest and the signature of one single
\* caller, so verifyManifest on the unmodified asset afterwards returns
\* VALID.
C17_LastWriterWins ==
    last.op = "verify" => (\E c \in Callers : PairOf(c)) /\ last.outcome.result = "VALID"

\* What holds instead: the final pair is that of one caller, and then
\* VALID, or the manifest of one caller with the signature of the other,
\* and then INVALID
C17_PairOrTornPair ==
    last.op = "verify" =>
        IF \E c \in Callers : PairOf(c)
        THEN last.outcome.result = "VALID"
        ELSE last.outcome = Outcome("INVALID", "Signature verification failed", "sidecar files")

\* Both outcomes of the race happen
C17_WholePairReached == last.op = "verify" /\ \E c \in Callers : PairOf(c)

------------------------------------------------------------------------------
(* The scanning loops of findAndParseBox and extractUUIDBoxes, one          *)
(* iteration at a time                                                      *)

\* What one pass through the body of a loop did: it returned a box, left the
\* loop by break, threw, or went on ("running") with the next offset; size
\* is the box size it read
Iteration(status, offset, size) == [status |-> status, offset |-> offset, size |-> size]

\* One pass through the body of the while loop of findAndParseBox, entered
\* with offset < buffer.length - 8
findAndParseBoxIteration(buffer, boxType, offsetStart) ==
    LET size32 == readUInt32BE(buffer, offsetStart)
        extended == size32 = 1
        canExtend == offsetStart + 16 <= Len(buffer)
        size == IF extended /\ canExtend THEN readUInt64BE(buffer, offsetStart + 8) ELSE size32
        offset == IF extended THEN offsetStart + 16 ELSE offsetStart + 4
    IN IF extended /\ ~canExtend THEN Iteration("broke", offsetStart, size32)
       ELSE IF offset + 4 > Len(buffer) THEN Iteration("broke", offset, size)
       ELSE IF Subarray(buffer, offset, offset + 4) = boxType
            THEN Iteration("returned", offset, size)
       ELSE IF size = 0 THEN Iteration("broke", offsetStart + size, size)
       ELSE Iteration("running", offsetStart + size, size)

\* One pass through the body of the while loop of extractUUIDBoxes, entered
\* with offset < metaData.length - 8
extractUUIDBoxesIteration(metaData, offset0) ==
    LET size32 == readUInt32BE(metaData, offset0)
        canExtend == CanRead(metaData, offset0 + 8, 8)
        size == IF size32 = 1 /\ canExtend THEN readUInt64BE(metaData, offset0 + 8) ELSE size32
        offset == IF size32 = 1 THEN offset0 + 16 ELSE offset0 + 4
        back == IF size = 1 THEN 16 ELSE 4
    IN IF size32 = 0 \/ size32 > Len(metaData) - offset0
       THEN Iteration("broke", offset0, size32)
       ELSE IF size32 = 1 /\ ~canExtend THEN Iteration("threw", offset0, size32)
       ELSE IF offset + 4 > Len(metaData) THEN Iteration("broke", offset, size)
       ELSE IF Subarray(metaData, offset, offset + 4) = STR_uuid /\ offset + 24 > Len(metaData)
            THEN Iteration("broke", offset, size)
       ELSE IF size = 0 THEN Iteration("broke", offset - back + size, size)
       ELSE Iteration("running", offset - back + size, size)

\* The size fields of the first box of a scanned buffer: 0, 1 (a 64-bit size
\* follows), sizes shorter than a header, sizes inside and past the buffer
ScanSizes == {0, 1, 2, 7, 8, 12, 64}

\* The low byte of the eight bytes after the type of the first box (its
\* 64-bit size when the size field is 1)
ScanLongSizes == {0, 1, 20}

ScanTypes == {STR_free, STR_uuid, STR_moov}

\* The boxes after the first one
ScanTail ==
    createBox(STR_free, <<1>>) \o createBox(STR_uuid, TRACE_UUID \o <<1, 2, 3, 4, 5>>)
    \o createBox(STR_moov, <<>>) \o createBox(STR_free, <<>>)

\* A meta payload whose only box has the size field 1 and nine bytes
ShortExtended == <<0, 0, 0, 1>> \o STR_uuid \o <<0>>

ScanBuffers ==
    {UInt32BE(d) \o type \o <<0, 0, 0, 0, 0, 0, 0, long>> \o ScanTail :
        d \in ScanSizes, type \in ScanTypes, long \in ScanLongSizes}
    \cup {<<>>, ShortExtended, ShortExtended \o <<0, 0, 0, 0>>}

Scanning(op, loop, buffer, boxType, did, iterations) ==
    [op |-> op, loop |-> loop, buffer |-> buffer, boxType |-> boxType,
     offset |-> did.offset, size |-> did.size, iterations |-> iterations,
     status |-> IF did.status = "running" /\ ~(did.offset < Len(buffer) - 8)
                THEN "ended" ELSE did.status]

\* A call of findAndParseBox(buffer, boxType) or extractUUIDBoxes(buffer)
\* about to test the condition of its loop for the first time
InitScan ==
    /\ fs = <<>>
    /\ oracle = <<>>
    /\ \E buffer \in ScanBuffers :
          \/ \E boxType \in {STR_moov, STR_meta} :
                last = Scanning("init", "findAndParseBox", buffer, boxType,
                                Iteration("running", 0, 0), 0)
          \/ last = Scanning("init", "extractUUIDBoxes", buffer, STR_uuid,
                             Iteration("running", 0, 0), 0)
    /\ stamped = <<>>
    /\ steps = 0

\* One iteration of the loop of findAndParseBox
IterateFind ==
    /\ last.loop = "findAndParseBox" /\ last.status = "running"
    /\ last' = Scanning("iterate", last.loop, last.buffer, last.boxType,
                        findAndParseBoxIteration(last.buffer, last.boxType, last.offset),
                        last.iterations + 1)
    /\ UNCHANGED <<fs, oracle, stamped, steps>>

\* One iteration of the loop of extractUUIDBoxes
IterateUUID ==
    /\ last.loop = "extractUUIDBoxes" /\ last.status = "running"
    /\ last' = Scanning("iterate", last.loop, last.buffer, last.boxType,
                        extractUUIDBoxesIteration(last.buffer, last.offset),
                        last.iterations + 1)
    /\ UNCHANGED <<fs, oracle, stamped, steps>>

NextScan == IterateFind \/ IterateUUID

SpecScan == InitScan /\ [][NextScan]_vars

\* The loops taken one iteration at a time end as the whole functions do
ScanAgrees ==
    last.status # "running" =>
        IF last.loop = "findAndParseBox"
        THEN (last.status = "returned") = findAndParseBox(last.buffer, last.boxType).found
        ELSE (last.status = "threw") = extractUUIDBoxes(last.buffer).err

\* C18: box scans terminate: for every byte buffer, including ones with size
\* fields 0, 1 (extended), 2..7, or larger than the buffer, the scanning
\* loops of findAndParseBox and extractUUIDBoxes finish after finitely many
\* iterations (no more than the buffer has bytes); every iteration returns,
\* breaks, or strictly increases the offset, and a size of zero ends the
\* scan.
C18_ScansTerminate ==
    [][last'.op = "iterate" =>
          /\ last'.iterations <= Len(last.buffer)
          /\ \/ last'.status \in {"returned", "broke"}
             \/ last'.offset > last.offset
          /\ last'.size = 0 => last'.status # "running"]_vars

\* C18 without its second part for the iteration that throws: the loops
\* finish, a size of zero ends the scan, and an iteration returns, breaks,
\* throws or strictly increases the offset
C18_ScansTerminateOrThrow ==
    [][last'.op = "iterate" =>
          /\ last'.iterations <= Len(last.buffer)
          /\ \/ last'.status \in {"returned", "broke", "threw"}
             \/ last'.offset > last.offset
          /\ last'.size = 0 => last'.status # "running"]_vars

\* A scan that went through three iterations and more
C18_LongScan == last.iterations >= 3 /\ last.status # "running"

------------------------------------------------------------------------------
(* What findAndParseBox returns, against the boxes of the buffer            *)

\* The Box findAndParseBox has to return for the box b of buffer: its size,
\* its start, and as data the bytes after the header (and after the four
\* bytes of version and flags for meta) up to the end of the box
BoxOf(buffer, b) ==
    [found |-> TRUE,
     size |-> b.size,
     data |-> Subarray(buffer,
                       b.start + b.header + (IF b.type = STR_meta THEN 4 ELSE 0),
                       b.start + b.size),
     startOffset |-> b.start]

\* The boxes of the buffer that have a 64-bit size and lie inside the buffer
ExtendedBoxes(buffer) ==
    {i \in 1..Len(Boxes(buffer)) :
        /\ Boxes(buffer)[i].header = 16
        /\ Boxes(buffer)[i].size >= 16
        /\ Boxes(buffer)[i].start + Boxes(buffer)[i].size <= Len(buffer)}

\* The scan that starts at the box b with a 64-bit size returns b when its
\* type is the searched one, and goes on at the end of b when it is not
ExtendedHandled(buffer, boxType, b) ==
    findAndParseBoxFrom(buffer, boxType, b.start)
        = IF b.type = boxType THEN BoxOf(buffer, b)
          ELSE findAndParseBoxFrom(buffer, boxType, b.start + b.size)

\* C19: extended-size boxes in findAndParseBox: when a box's 32-bit size
\* field is exactly 1, the 64-bit size read from the following 8 bytes is
\* used as the box size with a 16-byte header, the box's 4-byte tag is still
\* compared correctly against the searched tag, and a non-matching extended
\* box is skipped to exactly boxStart + size.
C19_ExtendedSize ==
    last.op = "find" =>
        \A i \in ExtendedBoxes(fs[STR_clip_mp4]) :
            ExtendedHandled(fs[STR_clip_mp4], last.boxType, Boxes(fs[STR_clip_mp4])[i])

\* The part of C19 that holds: a box with a 64-bit size whose type is not
\* the searched one, and whose payload does not start with the searched
\* type, is skipped to exactly boxStart + size
C19_ExtendedSkipped ==
    last.op = "find" =>
        \A i \in ExtendedBoxes(fs[STR_clip_mp4]) :
            LET b == Boxes(fs[STR_clip_mp4])[i]
            IN (/\ b.type # last.boxType
                /\ Subarray(fs[STR_clip_mp4], b.start + 16, b.start + 20) # last.boxType)
                  => ExtendedHandled(fs[STR_clip_mp4], last.boxType, b)

\* A search in a file that holds a box with a 64-bit size
C19_ExtendedSearched == last.op = "find" /\ ExtendedBoxes(fs[STR_clip_mp4]) # {}

\* C20: box invariant of findAndParseBox: for every buffer made of
\* well-formed consecutive boxes, findAndParseBox(buffer, tag) returns the
\* first box at the scanned level whose tag matches (including a last box
\* that is exactly 8 bytes long) and none if there is no such box; every
\* returned Box satisfies size = header length + payload length (plus the
\* 4-byte version/flags prefix for meta), its span [startOffset,
\* startOffset + size) lies inside the buffer, and its payload is exactly
\* the bytes after the header up to startOffset + size.
C20_BoxInvariant ==
    (last.op = "find" /\ WellFormed(fs[STR_clip_mp4])) =>
        LET hits == BoxesOfType(fs[STR_clip_mp4], last.boxType)
            b == Boxes(fs[STR_clip_mp4])[SetMin(hits)]
            prefix == IF last.boxType = STR_meta THEN 4 ELSE 0
        IN IF hits = {} THEN ~last.box.found
           ELSE /\ last.box = BoxOf(fs[STR_clip_mp4], b)
                /\ last.box.size = b.header + prefix + Len(last.box.data)
                /\ last.box.startOffset + last.box.size <= Len(fs[STR_clip_mp4])

\* The part of C20 that holds: files in which no box has a 64-bit size, and
\* a first matching box that is not a box of eight bytes at the end of the
\* file
C20_BoxInvariantPlainBoxes ==
    (/\ last.op = "find" /\ WellFormed(fs[STR_clip_mp4])
     /\ \A i \in 1..Len(Boxes(fs[STR_clip_mp4])) : Boxes(fs[STR_clip_mp4])[i].header = 8) =>
        LET hits == BoxesOfType(fs[STR_clip_mp4], last.boxType)
            b == Boxes(fs[STR_clip_mp4])[SetMin(hits)]
            prefix == IF last.boxType = STR_meta THEN 4 ELSE 0
        IN IF hits = {} THEN ~last.box.found
           ELSE (b.size > 8 \/ b.start + b.size < Len(fs[STR_clip_mp4]))
                   => /\ last.box = BoxOf(fs[STR_clip_mp4], b)
                      /\ last.box.size = b.header + prefix + Len(last.box.data)
                      /\ last.box.startOffset + last.box.size <= Len(fs[STR_clip_mp4])

\* A search that returned a box of a well-formed file
C20_FoundInWellFormed ==
    /\ last.op = "find" /\ WellFormed(fs[STR_clip_mp4]) /\ last.box.found
    /\ last.box.startOffset > 0

------------------------------------------------------------------------------
(* The vendor-box codec on its own: createMetaBox on a list of entries and  *)
(* extractUUIDBoxes on the payload of the box it made                       *)

MaxEntries == 2

\* The vendor of OtherVendorMP4
OTHER_UUID == [i \in 1..16 |-> 64 + i]

VendorUUIDs == {TRACE_UUID, OTHER_UUID}

\* Data of no bytes, of fewer than four, of four, and of more
VendorData == {<<>>, <<1, 2, 3>>, <<1, 2, 3, 4>>, <<1, 2, 3, 4, 5>>}

Coded(op, entries, decoded) == [op |-> op, entries |-> entries, decoded |-> decoded]

InitCodec ==
    /\ fs = <<>>
    /\ oracle = <<>>
    /\ last = Coded("init", <<>>, [err |-> FALSE, boxes |-> <<>>])
    /\ stamped = <<>>
    /\ steps = 0

\* One more entry {uuid, data} at the end of the list
AddEntry(uuid, data) ==
    /\ steps < MaxEntries
    /\ last' = Coded("add", Append(last.entries, [uuid |-> uuid, data |-> data]),
                     [err |-> FALSE, boxes |-> <<>>])
    /\ steps' = steps + 1
    /\ UNCHANGED <<fs, oracle, stamped>>

\* extractUUIDBoxes on the bytes of createMetaBox(entries) after its header
\* of twelve bytes
DecodeEntries ==
    /\ last.op # "decode"
    /\ last' = Coded("decode", last.entries,
                     extractUUIDBoxes(SubarrayFrom(createMetaBox(last.entries), 12)))
    /\ UNCHANGED <<fs, oracle, stamped, steps>>

NextCodec ==
    \/ \E uuid \in VendorUUIDs, data \in VendorData : AddEntry(uuid, data)
    \/ DecodeEntries

SpecCodec == InitCodec /\ [][NextCodec]_vars

\* C21: vendor-box codec round trip: for every list of vendor entries
\* {uuid: 16 bytes, data: bytes}, extractUUIDBoxes applied to the payload of
\* createMetaBox(entries) (the bytes after the 12-byte meta header) returns
\* the same entries in the same order, each with its 16-byte uuid read from
\* immediately after the 8-byte uuid-box header and its data equal to the
\* bytes that follow.
C21_VendorRoundTrip ==
    last.op = "decode" => ~last.decoded.err /\ last.decoded.boxes = last.entries

RECURSIVE EntryStart(_, _)
\* Where the box of the i-th entry starts in the payload of createMetaBox
EntryStart(entries, i) ==
    IF i = 1 THEN 0 ELSE EntryStart(entries, i - 1) + 24 + Len(entries[i - 1].data)

\* What the decoder returns instead: for each box the sixteen bytes that
\* start twelve bytes into the box (four bytes after the uuid) and as data
\* the bytes of the box from its byte 28 on; the last entry is missing when
\* its data has fewer than four bytes
C21_ShiftedRoundTrip ==
    last.op = "decode" =>
        LET n == Len(last.entries)
            payload == SubarrayFrom(createMetaBox(last.entries), 12)
            kept == IF n > 0 /\ Len(last.entries[n].data) < 4 THEN n - 1 ELSE n
        IN /\ ~last.decoded.err
           /\ last.decoded.boxes =
                 [i \in 1..kept |->
                     [uuid |-> Subarray(payload, EntryStart(last.entries, i) + 12,
                                        EntryStart(last.entries, i) + 28),
                      data |-> Subarray(payload, EntryStart(last.entries, i) + 28,
                                        EntryStart(last.entries, i) + 24
                                        + Len(last.entries[i].data))]]

\* A list of two entries has been encoded and decoded
C21_Decoded == last.op = "decode" /\ Len(last.entries) = 2

------------------------------------------------------------------------------
(* The loop of extractUUIDBoxes over the children of a meta box, one        *)
(* iteration at a time                                                      *)

MaxChildren == 3

\* A vendor identifier whose bytes 4..8 read as a size field of 1
ODD_UUID == <<1, 2, 3, 4, 0, 0, 0, 1, 9, 10, 11, 12, 13, 14, 15, 16>>

\* Children of a meta box: uuid boxes and others, with 32-bit and with
\* 64-bit sizes
Children ==
    {createBox(STR_uuid, TRACE_UUID \o <<1, 2, 3, 4, 5>>),
     createBox(STR_free, <<1>>),
     createExtendedBox(STR_free, <<7, 7>>),
     createExtendedBox(STR_uuid, OTHER_UUID \o <<9>>),
     createBox(STR_uuid, ODD_UUID)}

\* The payloads of meta boxes with up to MaxChildren of these children
SiblingPayloads ==
    {Concat(children) : children \in UNION {[1..n -> Children] : n \in 0..MaxChildren}}

\* A call of extractUUIDBoxes(metaData) about to test the condition of its
\* loop for the first time
InitSiblings ==
    /\ fs = <<>>
    /\ oracle = <<>>
    /\ \E metaData \in SiblingPayloads :
          last = Scanning("init", "extractUUIDBoxes", metaData, STR_uuid,
                          Iteration("running", 0, 0), 0)
    /\ stamped = <<>>
    /\ steps = 0

NextSiblings == IterateUUID

SpecSiblings == InitSiblings /\ [][NextSiblings]_vars

\* The child of the payload that starts at offset, as a set of at most one
ChildrenAt(buffer, offset) ==
    {i \in 1..Len(Boxes(buffer)) : Boxes(buffer)[i].start = offset}

\* C22: sibling skipping in extractUUIDBoxes: for every child box of a meta
\* payload, whether tagged uuid or not and whether it uses a 32-bit or an
\* extended 64-bit size, the scan advances to exactly childStart + size, so
\* every uuid box that follows a non-uuid or extended-size sibling is still
\* found at its true position (every iteration starts at the start of a
\* child); a read never goes past the end of the payload.
C22_SiblingSkipping ==
    [][last'.op = "iterate" =>
          /\ ChildrenAt(last.buffer, last.offset) # {}
          /\ last'.status \in {"running", "ended"}
          /\ \A i \in ChildrenAt(last.buffer, last.offset) :
                last'.offset = Boxes(last.buffer)[i].start + Boxes(last.buffer)[i].size]_vars

\* The part of C22 that holds: an iteration that starts at a child with a
\* 32-bit size, other than a uuid box with fewer than 28 bytes left, goes on
\* at childStart + size
C22_PlainSiblingSkipped ==
    [][(/\ last'.op = "iterate"
        /\ \E i \in ChildrenAt(last.buffer, last.offset) :
              LET b == Boxes(last.buffer)[i]
              IN /\ b.header = 8
                 /\ b.type = STR_uuid => b.start + 28 <= Len(last.buffer))
          => /\ last'.status \in {"running", "ended"}
             /\ \A i \in ChildrenAt(last.buffer, last.offset) :
                   last'.offset = Boxes(last.buffer)[i].start
                                  + Boxes(last.buffer)[i].size]_vars

\* A scan that went past a child with a 64-bit size and on
C22_SkippedExtended ==
    /\ last.op = "iterate" /\ last.iterations >= 2
    /\ Boxes(last.buffer)[1].header = 16

\* An iteration of a scan of well-formed children that reads past the end
C22_ReadPastEnd == last.op = "iterate" /\ last.status = "threw"

------------------------------------------------------------------------------
(* embedMetadataMP4 on files made of well-formed boxes: what it keeps and   *)
(* what it writes                                                           *)

\* moov with a meta box between two other children; meta holds the box of
\* another vendor
MetaMiddleMP4 ==
    createBox(STR_ftyp, <<105, 115, 111, 109>>)
    \o createBox(STR_moov,
           createBox(STR_mvhd, <<0>>)
           \o createMetaBox(<<[uuid |-> OTHER_UUID, data |-> <<1, 2, 3, 4, 5>>]>>)
           \o createBox(STR_free, <<8>>))
    \o createBox(STR_free, <<>>)

\* meta holds the boxes of two other vendors around a TRACE box
VendorsMP4 ==
    createBox(STR_moov,
        createMetaBox(<<[uuid |-> OTHER_UUID, data |-> <<1, 2, 3, 4, 5>>],
                        [uuid |-> TRACE_UUID, data |-> MetadataEnvelope(<<109, 48>>, <<115, 48>>)],
                        [uuid |-> ODD_UUID, data |-> <<6, 7, 8, 9>>]>>))
    \o createBox(STR_free, <<>>)

\* A free box with a 64-bit size before the moov box
SkippedExtendedMP4 ==
    createExtendedBox(STR_free, <<7, 7>>)
    \o createBox(STR_moov, createBox(STR_mvhd, <<0>>))
    \o createBox(STR_free, <<>>)

\* A free box with a 64-bit size whose payload starts with the characters
\* "moov", before the moov box
ShadowedMoovMP4 ==
    createExtendedBox(STR_free, STR_moov \o <<0, 0, 0, 0>>)
    \o createBox(STR_moov, createBox(STR_mvhd, <<0>>))

\* The moov box is the last box and has the size field 0: it runs to the
\* end of the file
ToEndMoovMP4 ==
    createBox(STR_ftyp, <<105, 115, 111, 109>>)
    \o createBoxOfSize(STR_moov, createBox(STR_mvhd, <<0>>), 0)

FrameFiles ==
    {SampleMP4, EmptyMetaMP4, MoovLastMP4, OtherVendorMP4, MetaMiddleMP4, VendorsMP4,
     SkippedExtendedMP4, ExtendedMoovMP4, ShadowedMoovMP4, BareMoovLastMP4,
     ToEndMoovMP4}

InitFrame ==
    /\ fs \in {[p \in {STR_clip_mp4} |-> bytes] : bytes \in FrameFiles}
    /\ oracle = <<>>
    /\ last = [DidEmbed(<<>>, <<>>, FALSE, <<>>, 0) EXCEPT !.op = "init"]
    /\ stamped = <<>>
    /\ steps = 0

NextFrame == \E manifest \in Manifests, signature \in Signatures : EmbedMP4(manifest, signature)

SpecFrame == InitFrame /\ [][NextFrame]_vars

\* The bytes of the box b of buffer, and the bytes after its header
BoxBytes(buffer, b) == Subarray(buffer, b.start, b.start + b.size)
PayloadOf(buffer, b) == Subarray(buffer, b.start + b.header, b.start + b.size)

\* The first top-level moov box of a file that has one
MoovOf(file) == Boxes(file)[SetMin(BoxesOfType(file, STR_moov))]

\* The file is made of well-formed boxes, has a moov box, and that box is
\* made of well-formed children
HasMoov(file) ==
    /\ WellFormed(file)
    /\ BoxesOfType(file, STR_moov) # {}
    /\ WellFormed(PayloadOf(file, MoovOf(file)))

\* The children of the box other than meta, byte for byte and in order
OtherChildren(payload) ==
    LET others == SelectSeq(Boxes(payload), LAMBDA c : c.type # STR_meta)
    IN Concat([i \in 1..Len(others) |-> BoxBytes(payload, others[i])])

\* before and after are the same file but for the moov box of before: the
\* bytes around it are the same, a moov box stands in its place, and its
\* payload is the children other than meta of the old one followed by one
\* meta box
OnlyMoovChanged(before, after) ==
    LET old == MoovOf(before)
        new == BoxAt(after, old.start)
        kept == OtherChildren(PayloadOf(before, old))
        payload == PayloadOf(after, new)
        meta == BoxAt(payload, Len(kept))
    IN /\ Subarray(after, 0, old.start) = Subarray(before, 0, old.start)
       /\ CanRead(after, old.start, 8)
       /\ new.type = STR_moov
       /\ SubarrayFrom(after, old.start + new.size) = SubarrayFrom(before, old.start + old.size)
       /\ Subarray(payload, 0, Len(kept)) = kept
       /\ CanRead(payload, Len(kept), 8)
       /\ meta.type = STR_meta
       /\ Len(kept) + meta.size = Len(payload)

\* C23: frame of MP4 embed: embedMetadataMP4 changes only the moov box;
\* every byte of the file before the old moov and after it is unchanged and
\* in the same order, the new moov sits where the old one was, and inside
\* moov every child box other than meta is kept byte-identical and in its
\* original order, with the rebuilt meta placed as the last child.
C23_EmbedFrame ==
    (last.op = "embedMP4" /\ ~last.err /\ HasMoov(last.before))
        => OnlyMoovChanged(last.before, fs[STR_clip_mp4])

\* No top-level box with a 64-bit size has a payload that starts with the
\* characters of the type
NotShadowed(file, type) ==
    \A i \in 1..Len(Boxes(file)) :
        Boxes(file)[i].header = 16
            => Subarray(file, Boxes(file)[i].start + 16, Boxes(file)[i].start + 20) # type

\* The moov box of the file has a 32-bit size field other than 0
SizedMoov(file) == MoovOf(file).header = 8 /\ readUInt32BE(file, MoovOf(file).start) # 0

\* The part of C23 that holds: files in which no top-level box with a 64-bit
\* size has a payload that starts with "moov", and whose moov box has a
\* size field other than 0
C23_EmbedFrameSizedMoov ==
    (/\ last.op = "embedMP4" /\ ~last.err /\ HasMoov(last.before)
     /\ NotShadowed(last.before, STR_moov) /\ SizedMoov(last.before))
        => OnlyMoovChanged(last.before, fs[STR_clip_mp4])

\* An embed has rewritten a moov box that had a meta box between two other
\* children
C23_MetaMoved ==
    /\ last.op = "embedMP4" /\ ~last.err /\ last.before = MetaMiddleMP4
    /\ fs[STR_clip_mp4] # last.before

\* The uuid boxes of other vendors in moov/meta of a file
OtherVendorBoxes(file) == SelectSeq(VendorBoxes(file), LAMBDA box : ~IsTraceBox(box))

\* C24: other vendors' entries survive an embed: when moov/meta already
\* holds uuid boxes with vendor UUIDs other than TRACE, embedMetadataMP4
\* keeps each of them with the identical 16-byte uuid and identical data
\* bytes, in their original order, and only removes the old TRACE entry and
\* appends the new one.
C24_OtherVendorsSurvive ==
    (last.op = "embedMP4" /\ ~last.err /\ OtherVendorBoxes(last.before) # <<>>)
        => LET boxes == VendorBoxes(fs[STR_clip_mp4])
               new == [uuid |-> TRACE_UUID,
                       data |-> MetadataEnvelope(last.manifest, last.signature)]
           IN boxes = Append(OtherVendorBoxes(last.before), new)

\* The part of C24 that holds: the new TRACE entry is the last uuid box of
\* moov/meta after the embed
C24_NewEntryAppended ==
    (last.op = "embedMP4" /\ ~last.err /\ OtherVendorBoxes(last.before) # <<>>)
        => LET boxes == VendorBoxes(fs[STR_clip_mp4])
           IN /\ boxes # <<>>
              /\ boxes[Len(boxes)] = [uuid |-> TRACE_UUID,
                                      data |-> MetadataEnvelope(last.manifest, last.signature)]

\* An embed into a file that held the boxes of two other vendors and an old
\* TRACE entry
C24_VendorsEmbedded ==
    last.op = "embedMP4" /\ ~last.err /\ last.before = VendorsMP4

\* The uuid boxes of a meta box fill its payload after the four bytes of
\* version and flags: each has a 32-bit size field equal to 24 plus the
\* length of its data, and the sizes add up to the payload
VendorBoxesFill(metaData) ==
    /\ WellFormed(metaData)
    /\ \A i \in 1..Len(Boxes(metaData)) :
          LET box == Boxes(metaData)[i]
          IN /\ box.type = STR_uuid /\ box.header = 8 /\ box.size >= 24
             /\ readUInt32BE(metaData, box.start) = box.size

\* The file is made of well-formed top-level boxes; the size field of its
\* moov box is the length of the box; the children of moov fill its
\* payload; the last child is the meta box, whose size field is 12 plus the
\* sizes of its uuid boxes
WellFormedOutput(file) ==
    /\ HasMoov(file)
    /\ LET moov == MoovOf(file)
           children == Boxes(PayloadOf(file, moov))
       IN /\ readUInt32BE(file, moov.start) = moov.size
          /\ children # <<>>
          /\ LET meta == children[Len(children)]
             IN /\ meta.type = STR_meta /\ meta.size >= 12
                /\ readUInt32BE(PayloadOf(file, moov), meta.start) = meta.size
                /\ VendorBoxesFill(Subarray(PayloadOf(file, moov), meta.start + 12,
                                            meta.start + meta.size))

\* C25: embed output stays well-formed: if the input file is a sequence of
\* well-formed top-level boxes whose sizes sum to the file length, then
\* after embedMetadataMP4 the output is again such a sequence: the size
\* field of the new moov equals its byte length, the sizes of moov's
\* children sum to moov's payload length, the size field of the new meta
\* equals 12 plus the sum of its uuid-box sizes, and each uuid box's size
\* field equals 24 plus its data length; this also holds when the original
\* moov used an extended 64-bit size.
C25_OutputWellFormed ==
    (last.op = "embedMP4" /\ HasMoov(last.before))
        => ~last.err /\ WellFormedOutput(fs[STR_clip_mp4])

\* No child of the moov box of the file has the size field 0
SizedChildren(file) ==
    LET payload == PayloadOf(file, MoovOf(file))
    IN \A i \in 1..Len(Boxes(payload)) : readUInt32BE(payload, Boxes(payload)[i].start) # 0

\* The part of C25 that holds: a moov box with a 32-bit size field other
\* than 0 that is more than a header at the end of the file, children of
\* moov with size fields other than 0, and no box with a 64-bit size whose
\* payload starts with "moov"
C25_OutputWellFormedSizedMoov ==
    (/\ last.op = "embedMP4" /\ HasMoov(last.before)
     /\ NotShadowed(last.before, STR_moov)
     /\ SizedMoov(last.before) /\ SizedChildren(last.before)
     /\ \/ MoovOf(last.before).size > 8
        \/ MoovOf(last.before).start + 8 < Len(last.before))
        => ~last.err /\ WellFormedOutput(fs[STR_clip_mp4])

\* An embed into a file whose moov box has a 64-bit size
C25_ExtendedMoovEmbedded == last.op = "embedMP4" /\ last.before = ExtendedMoovMP4

\* A second embed into a file with well-formed boxes
C25_EmbeddedTwice ==
    last.op = "embedMP4" /\ ~last.err /\ last.count = 2 /\ WellFormedOutput(last.before)

------------------------------------------------------------------------------
(* Sign, then embed: createManifest, saveSidecarFiles, embedMetadata with   *)
(* the signed pair, verifyManifest                                          *)

\* The assets that are signed: MP4 files with and without a meta box, with
\* an entry the extract reads as metadata, and without a moov box; WebM
\* files with and without a marker
SignedAssets ==
    {[path |-> STR_clip_mp4, bytes |-> bytes] :
        bytes \in {SampleMP4, EmptyMetaMP4, ForeignMP4, OtherBytes}}
    \cup {[path |-> STR_clip_webm, bytes |-> bytes] : bytes \in {SampleWebM, MarkedWebM}}

\* Where the caller is (pc: "start", "created", "saved", "embedded", "embed
\* failed"), what createManifest returned, and what verifyManifest answered
Signing(op, path, pc, made, outcome) ==
    [op |-> op, path |-> path, err |-> pc = "embed failed", pc |-> pc, made |-> made,
     outcome |-> outcome]

InitSigned ==
    /\ \E asset \in SignedAssets :
          /\ fs = [p \in Paths |-> IF p = asset.path THEN asset.bytes ELSE NoFile]
          /\ last = Signing("init", asset.path, "start",
                            [manifest |-> JNull, signature |-> <<>>], NoOutcome)
    /\ oracle = <<>>
    /\ stamped = [p \in VideoPaths |-> NoFile]
    /\ steps = 0

\* createManifest(videoPath, operation, provider, model, privateKey, inputHash)
CreateSigned(operation, privateKey, given) ==
    /\ last.pc = "start"
    /\ LET made == createManifest(oracle, fs, last.path, operation,
                                  ProviderOf(privateKey, given), ModelOf(privateKey),
                                  privateKey,
                                  IF operation = STR_ai_transformed
                                  THEN JStr(STR_other_hash) ELSE JNull,
                                  ClockAt(0), NonceAt(0))
       IN /\ oracle' = made.orc
          /\ last' = Signing("create", last.path, "created",
                             [manifest |-> made.manifest, signature |-> made.signature],
                             NoOutcome)
    /\ UNCHANGED <<fs, stamped, steps>>

\* saveSidecarFiles(videoPath, manifest, signature)
SaveSigned ==
    /\ last.pc = "created"
    /\ fs' = saveSidecarFiles(fs, last.path, last.made.manifest, last.made.signature)
    /\ last' = Signing("save", last.path, "saved", last.made, NoOutcome)
    /\ UNCHANGED <<oracle, stamped, steps>>

\* embedMetadata(videoPath, canonicalJSON(manifest), signature); when it
\* throws, no file is written
EmbedSigned ==
    /\ last.op # "verify" /\ last.pc \in {"saved", "embedded"}
    /\ steps < MaxEmbeds
    /\ LET done == embedMetadata(fs, last.path, canonicalJSON(last.made.manifest),
                                 last.made.signature)
       IN /\ fs' = IF done.err THEN fs ELSE [fs EXCEPT ![last.path] = done.file]
          /\ last' = Signing("embed", last.path,
                             IF done.err THEN "embed failed" ELSE "embedded",
                             last.made, NoOutcome)
    /\ steps' = steps + 1
    /\ UNCHANGED <<oracle, stamped>>

\* verifyManifest(videoPath)
VerifySigned ==
    /\ last.op # "verify" /\ last.pc \in {"saved", "embedded", "embed failed"}
    /\ last' = Signing("verify", last.path, last.pc, last.made,
                       verifyManifest(oracle, fs, last.path, <<>>, <<>>))
    /\ UNCHANGED <<fs, oracle, stamped, steps>>

NextSigned ==
    \/ \E operation \in Operations, k \in KeyIds, given \in BOOLEAN :
          CreateSigned(operation, k, given)
    \/ SaveSigned
    \/ EmbedSigned
    \/ VerifySigned

SpecSigned == InitSigned /\ [][NextSigned]_vars

\* C26: embedding after signing breaks the hash: output.hash is computed by
\* createManifest over the asset bytes before any embedding, and
\* embedMetadata (MP4 or WebM) rewrites the asset file; so for the sequence
\* createManifest, saveSidecarFiles, embedMetadata(asset, canonical
\* manifest, signature), verifyManifest(asset), the recomputed hash differs
\* from manifest.output.hash and the result is never VALID (it is INVALID
\* with the hash-mismatch reason when the signature verifies).
C26_EmbedBreaksHash ==
    (last.op = "verify" /\ last.pc = "embedded") =>
        /\ JStr(computeFileHash(oracle, fs, last.path))
              # Prop(Prop(last.made.manifest, STR_output), STR_hash)
        /\ last.outcome.result # "VALID"
        /\ (IsPair(Resolved)
            /\ SignatureHolds(oracle, Resolved.manifest, Resolved.signature))
              => /\ last.outcome.result = "INVALID"
                 /\ last.outcome.message
                      = "File hash mismatch - file may have been modified"

\* A verification after the signed pair was embedded that resolved the
\* embedded pair, found its signature good and the hash changed
C26_Witness ==
    /\ last.op = "verify" /\ last.pc = "embedded"
    /\ Resolved.from = "embedded metadata"
    /\ SignatureHolds(oracle, Resolved.manifest, Resolved.signature)
    /\ last.outcome.result = "INVALID"
    /\ last.outcome.message = "File hash mismatch - file may have been modified"

\* The same from the sidecar files, for an MP4 asset
C26_SidecarWitness ==
    /\ last.op = "verify" /\ last.pc = "embedded"
    /\ Resolved.from = "sidecar files" /\ last.path = STR_clip_mp4
    /\ last.outcome.result = "INVALID"
    /\ last.outcome.message = "File hash mismatch - file may have been modified"

------------------------------------------------------------------------------
(* One asset stamped after another                                          *)

\* C27: stamping one asset does not disturb another: getSidecarPaths maps
\* distinct asset paths to distinct sidecar paths, so after asset A is
\* stamped, stamping a different asset B in the same directory (for example
\* clip.webm after clip.mp4) leaves A's .prov.json and .prov.sig unchanged
\* and verifyManifest(A) still returns VALID.
C27_StampsIndependent ==
    [][last'.op = "stamp" =>
          \A a \in VideoPaths \ {last'.path} :
              stamped[a] # NoFile =>
                  /\ getSidecarPaths(a).manifestPath # getSidecarPaths(last'.path).manifestPath
                  /\ getSidecarPaths(a).signaturePath # getSidecarPaths(last'.path).signaturePath
                  /\ fs'[getSidecarPaths(a).manifestPath] = fs[getSidecarPaths(a).manifestPath]
                  /\ fs'[getSidecarPaths(a).signaturePath] = fs[getSidecarPaths(a).signaturePath]
                  /\ verifyManifest(oracle, fs, a, <<>>, <<>>).result = "VALID"
                        => verifyManifest(oracle', fs', a, <<>>, <<>>).result = "VALID"]_vars

\* The part of C27 that holds: a stamp writes the two sidecar files of its
\* asset and no other file
C27_StampWritesItsSidecars ==
    [][last'.op = "stamp" =>
          \A p \in Paths \ SidecarPathsOf(last'.path) : fs'[p] = fs[p]]_vars

\* The other asset has been stamped after the first one, which then fails
\* the verification
C27_SecondStampVerified ==
    /\ last.op = "verify" /\ last.path = STR_clip_mp4
    /\ stamped[STR_clip_webm] # NoFile
    /\ last.outcome.result = "INVALID"

==============================================================================
